---------------------------- MODULE Spec2Model ----------------------------
(***************************************************************************)
(* OregonBridge: the interrupt-fed pulse slot, the dispatcher loop(), the  *)
(* two pulse classifiers (Oregon Scientific v1 and v2.1) and the two       *)
(* device models with their checksum validation and field extraction.      *)
(*                                                                         *)
(* Bytes are naturals 0..255 and words naturals 0..65535; the arithmetic   *)
(* of the byte counters wraps modulo 256 as it does in the code.  The      *)
(* buffer data[25] is a sequence of 25 bytes, data[pos] of the code being  *)
(* d.data[d.pos + 1] here.                                                 *)
(***************************************************************************)
EXTENDS Naturals, Integers, Sequences, FiniteSets, TLC

VARIABLES
    dec,              \* dec[k]: the DecodeOOK fields of device k's decoder
    pulse,            \* OregonBridge::pulse, the shared slot (volatile word)
    last,             \* externalInterrupt's static word last
    usrCallbackfunc,  \* TRUE when a callback is registered (non-null)
    masked,           \* TRUE between noInterrupts() and interrupts()
    pending,          \* TRUE when an edge that arrived while masked is latched
    pc,               \* position of the main context inside loop()
    p,                \* loop()'s local p
    kk,               \* loop()'s device index
    now,              \* micros() modulo 2^16
    tx,               \* the transmitter: script being sent and position in it
    txLeft,           \* transmissions the transmitter may still start
    jammed,           \* TRUE once an interfering pulse has ended the traffic
    raceLeft,         \* edges that may still arrive while a pulse is pending
    scripts,          \* the transmissions the transmitter may choose from
    payload,          \* the bytes of the transmission "v1any"
    junk,             \* the widths an interfering pulse may have
    fed,              \* history: <<device, width>> of each nextPulse call of the
                      \*   current (or last) loop() invocation
    outcome,          \* history: per device, what its last nextPulse call did
                      \*   and the preamble pulses counted before and after it
    sinkCalls,        \* history: number of sink invocations so far
    doneCalls,        \* history: number of completed packets so far
    offered,          \* history: per device, gotBit calls of the current attempt
    sent,             \* history: the transmission started last
    written,          \* history: widths the ISR stored since loop() last read
    taken,            \* history: value of written when loop() last read
    late,             \* history: ISR runs caused by edges that arrived masked
    healed,           \* history: the interfering pulse a later transmission
                      \*   follows, and the sink invocations before it
    reading,          \* what a device model made of the buffer it was handed
    solo,             \* history: solo[k] is the decoder of device k on a
                      \*   bridge that has no other device, handed the same
                      \*   widths
    since,            \* history: microseconds, not reduced, since the ISR
                      \*   last ran
    gap               \* history: behind the width the ISR stored last, the
                      \*   microseconds t since its previous run and the
                      \*   interval w of the edge that ran it

vars == <<dec, pulse, last, usrCallbackfunc, masked, pending, pc, p, kk, now, tx,
          txLeft, jammed, raceLeft, scripts, payload, junk, fed, outcome, sinkCalls,
          doneCalls, offered, sent, written, taken, late, healed, reading,
          solo, since, gap>>

\* the program's own variables, the environment's and the history
prog == <<dec, pulse, last, usrCallbackfunc, masked, pending, pc, p, kk>>

env == <<now, tx, txLeft, jammed, raceLeft, scripts, payload, junk, sent>>

hist == <<fed, outcome, sinkCalls, doneCalls, offered, written, taken, late,
          healed, reading, solo, since, gap>>

NoGap == [t |-> 0, w |-> 0]

---------------------------------------------------------------------------
(* Program constants *)

DEVICES_NUM == 2

DataLen == 25

Word == 65536

Byte == 256

Devices == 1..DEVICES_NUM

\* the element of a one-element set; {F(r) : r \in {e}} evaluates e once
The(S) == CHOOSE x \in S : TRUE

\* INCLUDE_ALL_DEVICES registers OregonDevice_v1 first, then OregonDevice_v2
Proto(k) == IF k = 1 THEN "v1" ELSE "v2"

---------------------------------------------------------------------------
(* DecodeOOK *)

\* faulty variant of resetDecoder: the preamble counter is not zeroed
resetDecoder_keepflip(d) ==
    [d EXCEPT !.total_bits = 0, !.bits = 0, !.pos = 0, !.state = "UNKNOWN"]

resetDecoder(d) ==
    [d EXCEPT !.total_bits = 0, !.bits = 0, !.pos = 0, !.flip = 0,
              !.state = "UNKNOWN"]

\* new OregonDecoder_vN(): the object is zero-initialised, then DecodeOOK()
\* calls resetDecoder()
NewDecoder ==
    [state |-> "UNKNOWN", total_bits |-> 0, bits |-> 0, flip |-> 0, pos |-> 0,
     data |-> [i \in 1..DataLen |-> 0]]

isDone(d) == d.state = "DONE"

\* faulty variant of ShiftIn: the bit is shifted in at the bottom
ShiftIn_low(b, value) == ((b * 2) % 256) + (value % 2)

\* (*ptr >> 1) | (value << 7), stored into a byte
ShiftIn(b, value) == (b \div 2) + ((value % 2) * 128)

\* DecodeOOK::gotBit, first half: total_bits++ and the shift into data[pos]
gotBit_store(d, value) ==
    [d EXCEPT !.total_bits = (@ + 1) % Byte,
              !.data[d.pos + 1] = ShiftIn(@, value)]

\* DecodeOOK::gotBit, second half: ++bits >= 8, ++pos >= sizeof data
gotBit_count(d) ==
    IF (d.bits + 1) % Byte >= 8
    THEN IF (d.pos + 1) % Byte >= DataLen
         THEN resetDecoder(d)
         ELSE [d EXCEPT !.bits = 0, !.pos = (@ + 1) % Byte, !.state = "OK"]
    ELSE [d EXCEPT !.bits = (@ + 1) % Byte, !.state = "OK"]

\* DecodeOOK::gotBit
gotBit_base(d, value) == gotBit_count(gotBit_store(d, value))

\* OregonDecoder_v2::gotBit, first half: the bit is stored only when
\* total_bits is even
gotBit_v2_store(d, value) ==
    IF d.total_bits % 2 = 0
    THEN [d EXCEPT !.data[d.pos + 1] =
                     (@ \div 2) + (IF value # 0 THEN 128 ELSE 0)]
    ELSE d

\* OregonDecoder_v2::gotBit, second half: total_bits++, pos = total_bits >> 4
gotBit_v2_count(d) ==
    IF ((d.total_bits + 1) % Byte) \div 16 >= DataLen
    THEN resetDecoder(d)
    ELSE [d EXCEPT !.total_bits = (@ + 1) % Byte,
                   !.pos = ((d.total_bits + 1) % Byte) \div 16,
                   !.state = "OK"]

\* OregonDecoder_v2::gotBit
gotBit_v2(d, value) == gotBit_v2_count(gotBit_v2_store(d, value))

\* virtual dispatch of gotBit
gotBit(proto, d, value) ==
    IF proto = "v2" THEN gotBit_v2(d, value) ELSE gotBit_base(d, value)

\* faulty variant of XorBit: a long pulse does not toggle the flip bit
XorBit_stuck(f, value) == f

\* faulty variant of XorBit: the value is added to flip
XorBit_sum(f, value) == f + value

\* flip ^= value, for value in {0, 1}
XorBit(f, value) ==
    IF value % 2 = 1 THEN (IF f % 2 = 0 THEN f + 1 ELSE f - 1) ELSE f

\* faulty variant of manchester: the bit is appended before flip is toggled
manchester_early(proto, d, value) ==
    gotBit(proto, [d EXCEPT !.flip = XorBit(@, value)], d.flip)

\* DecodeOOK::manchester
manchester(proto, d, value) ==
    gotBit(proto, [d EXCEPT !.flip = XorBit(@, value)], XorBit(d.flip, value))

RECURSIVE padding(_, _)
padding(proto, d) ==
    IF d.bits # 0 THEN padding(proto, gotBit(proto, d, 0)) ELSE d

\* DecodeOOK::done
done(proto, d) == [padding(proto, d) EXCEPT !.state = "DONE"]

Cont(d) == [dc |-> d, rc |-> 0]

Fail(d) == [dc |-> d, rc |-> -1]

Success(d) == [dc |-> d, rc |-> 1]

---------------------------------------------------------------------------
(* OregonDecoder_v1::decode *)

\* the envelope test of decode
v1InBand(width) == 900 <= width /\ width <= 7000

\* byte w = width >= 2300
v1Long(width) == IF width >= 2300 THEN 1 ELSE 0

\* faulty variant of v1Complete: completion one bit late
v1Complete_late(total_bits) == total_bits > 32

\* if (total_bits >= 32) return 1
v1Complete(total_bits) == total_bits >= 32

\* faulty variant of v1SyncOn: the ends of the range are excluded
v1SyncOn_open(width) == 5550 < width /\ width < 6000

\* T1: the RF-on pulse of about 5.7 ms
v1SyncOn(width) == 5550 <= width /\ width <= 6000

\* T2: the RF-off period of about 5.2 ms that tells a first bit 1
v1GapOne(width) == 4800 <= width /\ width <= 5400

\* T2: the RF-off period of about 6.6 ms that tells a first bit 0
v1GapZero(width) == 6480 <= width /\ width <= 6880

\* the end of decode for a pulse that did not fail
Cont_v1(d) == IF v1Complete(d.total_bits) THEN Success(d) ELSE Cont(d)

decode_v1(d, width) ==
    IF v1InBand(width)
    THEN CASE d.state = "UNKNOWN" ->
                IF v1Long(width) = 0
                THEN Cont_v1([d EXCEPT !.flip = (@ + 1) % Byte])
                ELSE IF 22 <= d.flip
                THEN Cont_v1([d EXCEPT !.flip = 0, !.state = "T1"])
                ELSE Fail(d)
           [] d.state = "OK" ->
                IF v1Long(width) = 0
                THEN Cont_v1([d EXCEPT !.state = "T0"])
                ELSE Cont_v1(manchester("v1", d, 1))
           [] d.state = "T0" ->
                IF v1Long(width) = 0
                THEN Cont_v1(manchester("v1", d, 0))
                ELSE Fail(d)
           [] d.state = "T1" ->
                IF v1SyncOn(width)
                THEN Cont_v1([d EXCEPT !.state = "T2"])
                ELSE Fail(d)
           [] d.state = "T2" ->
                IF v1GapOne(width)
                THEN Cont_v1([d EXCEPT !.flip = 1, !.state = "T0"])
                ELSE IF v1GapZero(width)
                THEN Cont_v1(gotBit("v1", d, 0))
                ELSE Fail(d)
           [] OTHER -> Cont_v1(d)
    ELSE Fail(d)

---------------------------------------------------------------------------
(* OregonDecoder_v2::decode *)

\* faulty variant of v2InBand: the band reaches up to the end of the v1 band
v2InBand_wide(width) == 200 <= width /\ width <= 7000

\* faulty variant of v2InBand: the lower end of the band is excluded too
v2InBand_open(width) == 200 < width /\ width < 1200

\* the envelope test of decode
v2InBand(width) == 200 <= width /\ width < 1200

\* byte w = width >= 700
v2Long(width) == IF width >= 700 THEN 1 ELSE 0

\* faulty variant of v2SyncOff: the byte count is not tested
v2SyncOff_anypos(width, pos) == width >= 2500

\* the trailing sync-off test of decode
v2SyncOff(width, pos) == width >= 2500 /\ pos >= 8

decode_v2(d, width) ==
    IF v2InBand(width)
    THEN CASE d.state = "UNKNOWN" ->
                IF v2Long(width) # 0
                THEN Cont([d EXCEPT !.flip = (@ + 1) % Byte])
                ELSE IF 24 <= d.flip
                THEN Cont([d EXCEPT !.flip = 0, !.state = "T0"])
                ELSE Fail(d)
           [] d.state = "OK" ->
                IF v2Long(width) = 0
                THEN Cont([d EXCEPT !.state = "T0"])
                ELSE Cont(manchester("v2", d, 1))
           [] d.state = "T0" ->
                IF v2Long(width) = 0
                THEN Cont(manchester("v2", d, 0))
                ELSE Fail(d)
           [] OTHER -> Cont(d)
    ELSE IF v2SyncOff(width, d.pos)
    THEN Success(d)
    ELSE Fail(d)

\* virtual dispatch of decode
decode(proto, d, width) ==
    IF proto = "v2" THEN decode_v2(d, width) ELSE decode_v1(d, width)

\* faulty variant of nextPulse_switch: a failure does not reset the decoder
nextPulse_switch_noreset(proto, r) ==
    CASE r.rc = 1  -> [dc |-> done(proto, r.dc), rc |-> 1]
      [] OTHER     -> r

\* the switch of nextPulse on decode's result r
nextPulse_switch(proto, r) ==
    CASE r.rc = -1 -> [dc |-> resetDecoder(r.dc), rc |-> -1]
      [] r.rc = 1  -> [dc |-> done(proto, r.dc), rc |-> 1]
      [] OTHER     -> r

\* DecodeOOK::nextPulse: the decoder after the call, and decode's return code
\* (0 when the decoder was DONE and decode was not called)
nextPulse(proto, d, width) ==
    IF d.state # "DONE"
    THEN The({nextPulse_switch(proto, r) : r \in {decode(proto, d, width)}})
    ELSE Cont(d)

---------------------------------------------------------------------------
(* Device models: checksum validation *)

\* faulty variant of validateChecksum_v1: the checksum byte is compared with
\* itself
validateChecksum_v1_self(data) == data[4] = data[4]

\* faulty variant of validateChecksum_v1: the sum is not reduced to a byte
validateChecksum_v1_nomask(data) ==
    (data[1] + data[2] + data[3]) = data[4]

\* OregonDevice_v1::validateChecksum
validateChecksum_v1(data) ==
    ((data[1] + data[2] + data[3]) % 256) = data[4]

\* faulty variant of getChecksumPos: every identifier is taken as supported
getChecksumPos_any(data) == 16

\* OregonDevice_v2::getChecksumPos
getChecksumPos(data) ==
    IF data[1] * 256 + data[2] \in {59980, 6701} THEN 16 ELSE 0

RECURSIVE NibbleSum(_, _, _)
\* the for loop of validateChecksum: i = from, from + 2, ... while i < idx - 1
NibbleSum(data, from, idx) ==
    IF from < idx - 1
    THEN (data[(from \div 2) + 1] \div 16) + (data[(from \div 2) + 1] % 16)
         + NibbleSum(data, from + 2, idx)
    ELSE 0

\* OregonDevice_v2::validateChecksum for the nibble position idx
validateChecksum_at(data, idx) ==
    IF idx = 0 THEN FALSE
    ELSE IF idx % 2 = 1
    THEN ((NibbleSum(data, 0, idx) + (data[(idx \div 2) + 1] \div 16)
           + Word - 10) % 256)
         = (data[((idx + 1) \div 2) + 1] \div 16)
           + (data[(idx \div 2) + 1] % 16) * 16
    ELSE ((NibbleSum(data, 0, idx) + Word - 10) % 256)
         = data[(idx \div 2) + 1]

\* OregonDevice_v2::validateChecksum
validateChecksum_v2(data) == validateChecksum_at(data, getChecksumPos(data))

\* virtual dispatch of validateChecksum
validateChecksum(proto, data) ==
    IF proto = "v2" THEN validateChecksum_v2(data) ELSE validateChecksum_v1(data)

---------------------------------------------------------------------------
(* Device models: field extraction.  Temperatures are in tenths of a       *)
(* degree: the float ab + c / 10.0 of the code is the integer 10 * ab + c. *)

\* OregonDevice_v1::getOsVersion, OregonDevice_v2::getOsVersion
getOsVersion(proto) == IF proto = "v2" THEN "v2.1" ELSE "v1"

\* OregonDevice_v1::getRemoteModel
getRemoteModel_v1(data) == "Generic OS v1"

\* OregonDevice_v2::getRemoteModel
getRemoteModel_v2(data) ==
    CASE data[1] * 256 + data[2] = 59980 -> "THN132N"
      [] data[1] * 256 + data[2] = 6701  -> "THGR228N"
      [] OTHER -> "UNKNOWN"

getRemoteModel(proto, data) ==
    IF proto = "v2" THEN getRemoteModel_v2(data) ELSE getRemoteModel_v1(data)

\* OregonDevice_v1::getId: data[0] & 0x0f
getId_v1(data) == data[1] % 16

\* OregonDevice_v2::getId: data[3]
getId_v2(data) == data[4]

getId(proto, data) == IF proto = "v2" THEN getId_v2(data) ELSE getId_v1(data)

\* faulty variant of getBattery_v1: the flag is taken from bit 0x40
getBattery_v1_bit6(data) == (data[3] \div 64) % 2 = 0

\* OregonDevice_v1::getBattery: !(data[2] & 0x80)
getBattery_v1(data) == (data[3] \div 128) % 2 = 0

\* OregonDevice_v2::getBattery: !(data[4] & 0x4)
getBattery_v2(data) == (data[5] \div 4) % 2 = 0

getBattery(proto, data) ==
    IF proto = "v2" THEN getBattery_v2(data) ELSE getBattery_v1(data)

\* OregonDevice_v1::getTemperature
getTemperature_v1(data) ==
    (IF (data[3] \div 32) % 2 = 0 THEN 1 ELSE -1)
    * (((data[3] % 16) * 10 + (data[2] \div 16)) * 10 + (data[2] % 16))

\* faulty variant of getTemperature_v2: the sign flag is ignored
getTemperature_v2_unsigned(data) ==
    ((data[6] \div 16) * 10 + (data[6] % 16)) * 10 + (data[5] \div 16)

\* OregonDevice_v2::getTemperature
getTemperature_v2(data) ==
    (IF (data[7] \div 8) % 2 = 1 THEN -1 ELSE 1)
    * (((data[6] \div 16) * 10 + (data[6] % 16)) * 10 + (data[5] \div 16))

getTemperature(proto, data) ==
    IF proto = "v2" THEN getTemperature_v2(data) ELSE getTemperature_v1(data)

\* OregonDevice_v2::getHumidity, a byte
getHumidity_v2(data) == ((data[8] % 16) * 10 + (data[7] \div 16)) % Byte

\* OregonDevice_v1 does not override Device::getHumidity
getHumidity(proto, data) == IF proto = "v2" THEN getHumidity_v2(data) ELSE 0

\* OregonDevice_v1::getChannel: the switch on the high nibble of data[0]
getChannel_v1(data) ==
    CASE data[1] \div 16 \in {0, 2} -> 1
      [] data[1] \div 16 = 4 -> 2
      [] data[1] \div 16 = 8 -> 3
      [] OTHER -> 0

\* 1 << (code - 1), returned as a byte: the values the call can return.  For
\* the code 0 the shift count is negative, which the language leaves
\* undefined: any byte
getChannel_shift(code) ==
    IF code = 0 THEN 0..(Byte - 1) ELSE {(2 ^ (code - 1)) % Byte}

\* OregonDevice_v2::getChannel: the values the call can return
getChannel_v2(data) == getChannel_shift(data[3] \div 16)

getChannel(proto, data) ==
    IF proto = "v2" THEN getChannel_v2(data) ELSE {getChannel_v1(data)}

\* the example callback: every getter applied to the buffer; the readings
\* it can obtain
osCallback(proto, data) ==
    {[valid |-> TRUE, proto |-> proto, data |-> data,
      version |-> getOsVersion(proto),
      model |-> getRemoteModel(proto, data),
      id |-> getId(proto, data),
      channel |-> c,
      temperature |-> getTemperature(proto, data),
      humidity |-> getHumidity(proto, data),
      battery |-> getBattery(proto, data)] : c \in getChannel(proto, data)}

---------------------------------------------------------------------------
(* The radio environment: what the receiver pin delivers.  A transmission  *)
(* is a sequence of inter-edge intervals in microseconds.                  *)

\* nominal pulse widths of a v1 and of a v2.1 transmitter
V1 == [short |-> 1500, long |-> 3000, syncOn |-> 5700, gap1 |-> 5200,
       gap0 |-> 6600]

V2 == [short |-> 500, long |-> 1000, syncOff |-> 3000]

Rep(n, x) == [i \in 1..n |-> x]

\* bit i (from 1) of a packet in transmission order: byte by byte, least
\* significant bit first
BitOf(bytes, i) ==
    (bytes[((i - 1) \div 8) + 1] \div (2 ^ ((i - 1) % 8))) % 2

\* v2.1 sends every bit followed by its complement: offered bit i
OfferedBit(bytes, i) ==
    IF i % 2 = 1 THEN BitOf(bytes, (i + 1) \div 2)
    ELSE 1 - BitOf(bytes, i \div 2)

\* Manchester coding of one bit after the bit prev: a bit equal to the
\* previous one is two short pulses, a bit that differs is one long pulse
ManchesterBit(bit, prev, t) ==
    IF bit = prev THEN <<t.short, t.short>> ELSE <<t.long>>

V1Good == <<68, 83, 2, 153>>

V1Neg == <<133, 71, 33, 237>>

V1Bad == <<68, 83, 2, 152>>

V2Good == <<26, 45, 32, 139, 88, 33, 64, 199, 76, 140>>

V2Nine == <<26, 45, 64, 88, 76, 8, 136, 130, 83>>

V2Bad == <<26, 45, 32, 139, 88, 33, 64, 199, 77, 140>>

V2Unknown == <<26, 46, 32, 139, 88, 33, 64, 199, 77, 140>>

\* bounds of the environment: transmissions per run, edges that may arrive
\* while a pulse is pending or loop() is running, bytes of the overlong v2.1
\* transmission, free leading bits of the "v1any" packet
MaxTx == 1

MaxRace == 2

FloodLen == 27

MaxBits == 6

\* bits sent by "v1any": a whole packet and two bits more
V1AnyBits == 34

\* pulses of the preamble-only transmissions: past the range of the byte
\* counter flip by more than either preamble threshold
PreambleLen == 281

\* a v1 transmission of n preamble pulses and nbits bits of a packet: the
\* short preamble pulses, the long start pulse, the two calibration pulses
\* (the second tells the first bit; a first bit 1 is completed by a short
\* pulse), then bits 2.. in Manchester code
V1Tx(n, bytes, nbits) ==
    [proto |-> "v1", dup |-> FALSE, bytes |-> bytes,
     head |-> Rep(n, V1.short) \o <<V1.long, V1.syncOn>>
              \o (IF BitOf(bytes, 1) = 1 THEN <<V1.gap1, V1.short>>
                   ELSE <<V1.gap0>>),
     from |-> 2, to |-> nbits, tail |-> <<>>]

\* a v2.1 transmission of n preamble pulses and nbits offered bits of a
\* packet: the long preamble pulses, then the offered bits in Manchester code
\* after a 0 (the first short pulse of the first bit ends the preamble), then
\* the tail pulses
V2Tx(n, bytes, nbits, tail) ==
    [proto |-> "v2", dup |-> TRUE, bytes |-> bytes, head |-> Rep(n, V2.long),
     from |-> 1, to |-> nbits, tail |-> tail]

Scripts ==
    [v1good |-> V1Tx(22, V1Good, 32),
     v1neg  |-> V1Tx(23, V1Neg, 32),
     v1bad  |-> V1Tx(22, V1Bad, 32),
     v1early |-> V1Tx(21, V1Good, 1),
     v2good |-> V2Tx(24, V2Good, 160, <<V2.syncOff>>),
     v2nine |-> V2Tx(25, V2Nine, 144, <<V2.syncOff>>),
     v2bad  |-> V2Tx(24, V2Bad, 160, <<V2.syncOff>>),
     v2unknown |-> V2Tx(24, V2Unknown, 160, <<V2.syncOff>>),
     v2early |-> V2Tx(23, V2Good, 1, <<>>),
     v2flood |-> V2Tx(24, Rep(FloodLen, 0), 16 * FloodLen, <<V2.syncOff>>),
     burst  |-> V2Tx(1, <<0>>, 0, <<V1.short, V1.long>>)]

AllScripts == DOMAIN Scripts

RaceScripts == {"burst"}

\* the packets of "v1any": every value of the first MaxBits bits, a valid
\* checksum, and a fifth byte for the bits sent after the packet
Payloads ==
    {<<b, 83, 2, (b + 85) % 256, 1>> : b \in 0..(2 ^ MaxBits - 1)}

\* "v1any" sends the bits of payload to the v1 classifier; "v2raw" sends a
\* bit sequence to the v2.1 classifier in plain Manchester code, every bit
\* once
ManchesterScripts == {"v1any", "v2raw"}

\* preamble pulses of the transmission "v1wrap": as many as the byte counter
\* flip has values
WrapLen == 256

\* the transmissions an interfering pulse may cut short, and the well-formed
\* transmissions with a valid checksum that may follow it
HealPrefix == {"v1half", "v2half"}

HealScripts == {"v1good", "v2nine", "v1wrap"}

\* "v1pre" and "v2pre" send nothing but preamble pulses: short v1 pulses,
\* long v2.1 pulses
PreambleScripts == {"v1pre", "v2pre"}

\* transmissions of the scenario of two packets in a row
StaleTx == 2

\* a valid v2.1 packet, and the same packet cut off after its first 8 bytes:
\* "v2eight" sends the sync-off pulse in place of the checksum byte
StaleScripts == {"v2good", "v2eight"}

Script(s) ==
    CASE s = "v1any" -> V1Tx(22, payload, V1AnyBits)
      [] s = "v2raw" -> [V2Tx(24, <<84>>, 8, <<>>) EXCEPT !.dup = FALSE]
      [] s = "v1pre" -> [V1Tx(0, <<0>>, 0) EXCEPT
                           !.head = Rep(PreambleLen, V1.short)]
      [] s = "v2pre" -> V2Tx(PreambleLen, <<0>>, 0, <<>>)
      [] s = "v1half" -> V1Tx(22, V1Bad, 10)
      [] s = "v2half" -> V2Tx(24, V2Good, 36, <<>>)
      [] s = "v1wrap" -> V1Tx(WrapLen, V1Good, 32)
      [] s = "v2eight" -> V2Tx(24, V2Good, 128, <<V2.syncOff>>)
      [] OTHER -> Scripts[s]

\* the timing of a transmission's protocol
Timing(t) == IF t.proto = "v1" THEN V1 ELSE V2

\* bit i of transmission t as it is sent
TxBit(t, i) ==
    IF t.dup THEN OfferedBit(t.bytes, i) ELSE BitOf(t.bytes, i)

\* the pulses that send bit i of transmission t
TxBitPulses(t, i) ==
    ManchesterBit(TxBit(t, i),
                  IF i = 1 THEN 0 ELSE TxBit(t, i - 1), Timing(t))

\* the transmitter's position: section sec (1 head, 2 bits, 3 tail), item
\* i of the section, pulse h of the item
TxWidth(x) ==
    CASE x.sec = 1 -> Script(x.s).head[x.i]
      [] x.sec = 2 -> TxBitPulses(Script(x.s), x.i)[x.h]
      [] OTHER     -> Script(x.s).tail[x.i]

NoTx == [s |-> "none", sec |-> 0, i |-> 0, h |-> 0]

\* the first position of transmission s at or after section sec
TxEnter(s, sec) ==
    LET t == Script(s)
    IN  IF sec <= 1 /\ Len(t.head) > 0 THEN [s |-> s, sec |-> 1, i |-> 1, h |-> 1]
        ELSE IF sec <= 2 /\ t.from <= t.to
        THEN [s |-> s, sec |-> 2, i |-> t.from, h |-> 1]
        ELSE IF Len(t.tail) > 0 THEN [s |-> s, sec |-> 3, i |-> 1, h |-> 1]
        ELSE NoTx

\* the position after x
TxAdvance(x) ==
    LET t == Script(x.s)
    IN  CASE x.sec = 1 ->
               IF x.i < Len(t.head) THEN [x EXCEPT !.i = @ + 1]
               ELSE TxEnter(x.s, 2)
          [] x.sec = 2 ->
               IF x.h < Len(TxBitPulses(t, x.i)) THEN [x EXCEPT !.h = @ + 1]
               ELSE IF x.i < t.to THEN [x EXCEPT !.i = @ + 1, !.h = 1]
               ELSE TxEnter(x.s, 3)
          [] OTHER ->
               IF x.i < Len(t.tail) THEN [x EXCEPT !.i = @ + 1]
               ELSE NoTx

\* widths on both sides of every threshold of the two classifiers
JunkWidths ==
    {0, 100, 199, 200, 699, 700, 899, 900, 1199, 1200, 2299, 2300, 2499, 2500,
     4799, 4800, 5400, 5401, 5549, 5550, 6000, 6001, 6479, 6480, 6880, 6881,
     7000, 7001, 65535}

\* intervals that end 2^16 microseconds, or a multiple of it, after an edge
\* of "burst", and their neighbours
ElapsedWidths ==
    {0, 100, 60036, 61036, 62536, 64536, 65535, 65536, 65537, 131072}

\* the counters and the state of a decoder, without its buffer
Fields(d) ==
    [state |-> d.state, total_bits |-> d.total_bits, bits |-> d.bits,
     flip |-> d.flip, pos |-> d.pos]

---------------------------------------------------------------------------
(* Initial state: the global OregonBridge object after its constructor     *)

TypeOK ==
    /\ pulse \in 0..(Word - 1)
    /\ last \in 0..(Word - 1)
    /\ pc \in {"idle", "read", "clear", "exit", "dev"}
    /\ masked \in BOOLEAN
    /\ pending \in BOOLEAN

NoHeal == [on |-> FALSE, base |-> 0, w |-> 0, out |-> {}]

NoReading ==
    [valid |-> FALSE, proto |-> "none", data |-> <<>>, version |-> "",
     model |-> "", id |-> 0, channel |-> 0, temperature |-> 0, humidity |-> 0,
     battery |-> FALSE]

NoOutcome ==
    [called |-> FALSE, rc |-> 0, valid |-> FALSE, sunk |-> FALSE, w |-> 0,
     pre |-> Fields(NewDecoder), at |-> Fields(NewDecoder), n |-> 0,
     run |-> 0]

InitCommon ==
    /\ dec = [k \in Devices |-> NewDecoder]
    /\ pulse = 0
    /\ last = 0
    /\ usrCallbackfunc = FALSE
    /\ masked = FALSE
    /\ pending = FALSE
    /\ pc = "idle"
    /\ p = 0
    /\ kk = 0
    /\ now = 0
    /\ tx = NoTx
    /\ jammed = FALSE
    /\ fed = <<>>
    /\ outcome = [k \in Devices |-> NoOutcome]
    /\ sinkCalls = 0
    /\ doneCalls = 0
    /\ offered = [k \in Devices |-> 0]
    /\ sent = "none"
    /\ written = <<>>
    /\ taken = <<>>
    /\ late = 0
    /\ healed = NoHeal
    /\ reading = NoReading
    /\ solo = [k \in Devices |-> NewDecoder]
    /\ since = 0
    /\ gap = NoGap

\* whole transmissions and interfering pulses, every edge polled before the
\* next one arrives
Init ==
    /\ InitCommon
    /\ txLeft = MaxTx
    /\ raceLeft = 0
    /\ scripts = AllScripts
    /\ payload = <<0, 83, 2, 85, 1>>
    /\ junk = JunkWidths

\* a short burst of edges that may arrive at any point of loop()
RaceInit ==
    /\ InitCommon
    /\ txLeft = MaxTx
    /\ raceLeft = MaxRace
    /\ scripts = RaceScripts
    /\ payload = <<0, 83, 2, 85, 1>>
    /\ junk = JunkWidths

\* a short burst of edges that may arrive at any point of loop(), followed
\* by an edge after a long silence
ElapsedInit ==
    /\ InitCommon
    /\ txLeft = 1
    /\ raceLeft = MaxRace
    /\ scripts = RaceScripts
    /\ payload = <<0, 83, 2, 85, 1>>
    /\ junk = ElapsedWidths

\* a valid v1 transmission of which up to MaxRace edges, or an interfering
\* one, arrive while loop() runs or the slot is full
SinkRaceInit ==
    /\ InitCommon
    /\ txLeft = 1
    /\ raceLeft = MaxRace
    /\ scripts = {"v1good"}
    /\ payload = <<0, 83, 2, 85, 1>>
    /\ junk = {100, 3000}

\* one Manchester-coded bit sequence, every edge polled before the next
ManchesterInit ==
    /\ InitCommon
    /\ txLeft = 1
    /\ raceLeft = 0
    /\ scripts = ManchesterScripts
    /\ payload \in Payloads
    /\ junk = {2299, 2300}

\* a run of preamble pulses of any length up to PreambleLen, ended by a pulse
\* of any width
PreambleInit ==
    /\ InitCommon
    /\ txLeft = 1
    /\ raceLeft = 0
    /\ scripts = PreambleScripts
    /\ payload = <<0, 83, 2, 85, 1>>
    /\ junk = JunkWidths

\* up to StaleTx transmissions in a row, whole or cut off by a pulse that is
\* too short for either classifier or long enough for a sync-off
StaleInit ==
    /\ InitCommon
    /\ txLeft = StaleTx
    /\ raceLeft = 0
    /\ scripts = StaleScripts
    /\ payload = <<0, 83, 2, 85, 1>>
    /\ junk = {100, 2500}

---------------------------------------------------------------------------
(* OregonBridge::externalInterrupt *)

\* faulty variant of externalInterrupt: a full slot keeps its value
externalInterrupt_first(t) ==
    /\ pulse' = IF pulse = 0 THEN (t + Word - last) % Word ELSE pulse
    /\ last' = t
    /\ written' = Append(written, (t + Word - last) % Word)

\* faulty variant of externalInterrupt: last is not advanced
externalInterrupt_stale(t) ==
    /\ pulse' = (t + Word - last) % Word
    /\ last' = last
    /\ written' = Append(written, pulse')

\* the ISR body with micros() = t: pulse = micros() - last; last += pulse
externalInterrupt(t) ==
    /\ pulse' = (t + Word - last) % Word
    /\ last' = (last + pulse') % Word
    /\ written' = Append(written, pulse')

\* a signal edge w microseconds after the previous one.  Unmasked, the ISR
\* runs.  Masked, the ISR does not run; the source does not say what the
\* interrupt controller does with such an edge, so it is either lost or
\* latched until interrupts().  An edge that finds loop() running or the
\* slot full is counted by raceLeft.
Arrive(w) ==
    /\ \/ /\ pc = "idle" /\ pulse = 0
          /\ UNCHANGED raceLeft
       \/ /\ ~(pc = "idle" /\ pulse = 0)
          /\ raceLeft > 0
          /\ raceLeft' = raceLeft - 1
    /\ now' = (now + w) % Word
    /\ IF masked
       THEN /\ pending' \in {pending, TRUE}
            /\ since' = since + w
            /\ UNCHANGED <<pulse, last, written, gap>>
       ELSE /\ externalInterrupt((now + w) % Word)
            /\ since' = 0
            /\ gap' = [t |-> since + w, w |-> w]
            /\ UNCHANGED pending
    /\ UNCHANGED <<dec, usrCallbackfunc, masked, pc, p, kk, scripts, payload, junk>>
    /\ UNCHANGED <<fed, outcome, sinkCalls, doneCalls, offered, taken, late,
                   healed, reading, solo>>

\* the transmitter starts a transmission; only the first one can arrive
\* before setup() has registered the callback
StartTx(s) ==
    /\ tx = NoTx
    /\ ~jammed
    /\ txLeft > 0
    /\ usrCallbackfunc \/ sent = "none"
    /\ s \in scripts
    /\ tx' = TxEnter(s, 1)
    /\ sent' = s
    /\ txLeft' = txLeft - 1
    /\ UNCHANGED <<prog, hist, now, jammed, raceLeft, scripts, payload, junk>>

\* the next edge of the running transmission
Edge ==
    /\ tx # NoTx
    /\ Arrive(TxWidth(tx))
    /\ tx' = TxAdvance(tx)
    /\ UNCHANGED <<txLeft, jammed, sent>>

\* an interfering edge of any width; it ends the traffic of the scenario
Junk(w) ==
    /\ ~jammed
    /\ w \in junk
    /\ jammed' = TRUE
    /\ Arrive(w)
    /\ tx' = NoTx
    /\ UNCHANGED <<txLeft, sent>>

\* OregonBridge::registerCallback, called from setup()
registerCallback ==
    /\ ~usrCallbackfunc
    /\ sent = "none" /\ ~jammed /\ pc = "idle" /\ pulse = 0
    /\ usrCallbackfunc' = TRUE
    /\ UNCHANGED <<dec, pulse, last, masked, pending, pc, p, kk, hist, env>>

---------------------------------------------------------------------------
(* OregonBridge::loop, one action per statement that touches shared state  *)

\* faulty variant of noInterrupts: the source stays unmasked
noInterrupts_off == FALSE

\* noInterrupts()
noInterrupts == TRUE

\* faulty variant of interrupts: the source is left masked
interrupts_masked ==
    /\ masked' = masked
    /\ pending' = pending
    /\ UNCHANGED <<pulse, last, written, late, since, gap>>

\* interrupts(): the source is unmasked and a latched edge runs the ISR at
\* once; the time the cycle took after the latched edge is taken as zero
interrupts ==
    /\ masked' = FALSE
    /\ pending' = FALSE
    /\ IF pending
       THEN /\ externalInterrupt(now)
            /\ late' = late + 1
            /\ since' = 0
            /\ gap' = [t |-> since, w |-> 0]
       ELSE UNCHANGED <<pulse, last, written, late, since, gap>>

\* loop() entry: noInterrupts()
LoopBegin ==
    /\ pc = "idle"
    /\ masked' = noInterrupts
    /\ pc' = "read"
    /\ fed' = <<>>
    /\ UNCHANGED <<dec, pulse, last, usrCallbackfunc, pending, p, kk, env>>
    /\ UNCHANGED <<outcome, sinkCalls, doneCalls, offered, written, taken, late,
                   healed, reading, solo, since, gap>>

\* word p = this->pulse
LoopRead ==
    /\ pc = "read"
    /\ p' = pulse
    /\ pc' = "clear"
    /\ taken' = written
    /\ written' = <<>>
    /\ gap' = NoGap
    /\ UNCHANGED <<dec, pulse, last, usrCallbackfunc, masked, pending, kk, env>>
    /\ UNCHANGED <<fed, outcome, sinkCalls, doneCalls, offered, late, healed,
                   reading, solo, since>>

\* faulty variant of Sink: the checksum result is ignored
Sink_always(ok, callback) == callback

\* whether the user callback runs: if (this->usrCallbackfunc) after a valid
\* checksum
Sink(ok, callback) == ok /\ callback

\* the rest of the loop body after nextPulse returned r: dataToDecoder,
\* validateChecksum and the callback
Dispatch_done(proto, r, callback) ==
    IF ~isDone(r.dc)
    THEN [dc |-> r.dc, at |-> r.dc, rc |-> r.rc, valid |-> FALSE,
          sunk |-> FALSE]
    ELSE [dc |-> resetDecoder(r.dc), at |-> r.dc, rc |-> r.rc,
          valid |-> validateChecksum(proto, r.dc.data),
          sunk |-> Sink(validateChecksum(proto, r.dc.data), callback)]

\* one iteration of the for loop over the devices, dataToDecoder included:
\* the decoder after it (dc), the decoder as nextPulse left it (at), decode's
\* return code, whether the checksum was valid, whether the sink was called
Dispatch(proto, d, width, callback) ==
    The({Dispatch_done(proto, r, callback) : r \in {nextPulse(proto, d, width)}})

\* faulty variant of EmptySlot: no width is taken for the empty slot
EmptySlot_never(w) == FALSE

\* if (p == 0): the value of the slot that stands for "no pulse"
EmptySlot(w) == w = 0

\* history: what each device does with the width w when it is the only
\* device of its bridge
Alone(w) ==
    [k \in Devices |-> Dispatch(Proto(k), solo[k], w, usrCallbackfunc).dc]

\* this->pulse = 0; if (p == 0) ... else the for loop starts with kk = 0
LoopClear ==
    /\ pc = "clear"
    /\ pulse' = 0
    /\ IF EmptySlot(p)
       THEN /\ pc' = "exit"
            /\ UNCHANGED <<kk, solo>>
       ELSE /\ pc' = "dev"
            /\ kk' = 0
            /\ solo' = Alone(p)
    /\ UNCHANGED <<dec, last, usrCallbackfunc, masked, pending, p, env>>
    /\ UNCHANGED <<fed, outcome, sinkCalls, doneCalls, offered, written, taken,
                   late, healed, reading, since, gap>>

\* if (p == 0) { interrupts(); return; }
LoopReturn ==
    /\ pc = "exit"
    /\ interrupts
    /\ pc' = "idle"
    /\ UNCHANGED <<dec, usrCallbackfunc, p, kk, env>>
    /\ UNCHANGED <<fed, outcome, sinkCalls, doneCalls, offered, taken, healed,
                   reading, solo>>

\* faulty variant of NextDevice: the loop ends at the first completed packet
NextDevice_done(i, r) == IF isDone(r.at) THEN DEVICES_NUM ELSE i + 1

\* faulty variant of NextDevice: the loop ends once the sink was called
NextDevice_break(i, r) == IF r.sunk THEN DEVICES_NUM ELSE i + 1

\* kk++ of the for loop, reached by every continue and by the end of the body
NextDevice(i, r) == i + 1

\* history: gotBit calls of the attempt the decoder is in; a call shows as a
\* change of total_bits
Offered(n, d, r) ==
    (IF d.state = "UNKNOWN" THEN 0 ELSE n)
    + (IF r.rc # -1 /\ r.at.total_bits # d.total_bits THEN 1 ELSE 0)

\* history: the pulses counted by ++flip since the decoder was last reset; a
\* call that leaves the decoder in UNKNOWN without failing has counted one
Run(n, d, r) ==
    IF d.state = "UNKNOWN" /\ r.rc = 0 /\ r.at.state = "UNKNOWN"
    THEN n + 1
    ELSE 0

\* the body of the for loop for device kk
LoopDevice ==
    /\ pc = "dev"
    /\ kk < DEVICES_NUM
    /\ \E k \in {kk + 1} :
         \E r \in {Dispatch(Proto(k), dec[k], p, usrCallbackfunc)} :
           /\ dec' = [dec EXCEPT ![k] = r.dc]
           /\ fed' = Append(fed, <<k, p>>)
           /\ outcome' = [outcome EXCEPT ![k] =
                            [called |-> TRUE, rc |-> r.rc, valid |-> r.valid,
                             sunk |-> r.sunk, w |-> p,
                             pre |-> Fields(dec[k]), at |-> Fields(r.at),
                             n |-> outcome[k].run,
                             run |-> Run(outcome[k].run, dec[k], r)]]
           /\ sinkCalls' = IF r.sunk THEN sinkCalls + 1 ELSE sinkCalls
           /\ doneCalls' = IF isDone(r.at) THEN doneCalls + 1 ELSE doneCalls
           /\ offered' = [offered EXCEPT ![k] = Offered(@, dec[k], r)]
           /\ kk' = NextDevice(kk, r)
    /\ UNCHANGED <<pulse, last, usrCallbackfunc, masked, pending, pc, p, env>>
    /\ UNCHANGED <<written, taken, late, healed, reading, solo, since, gap>>

\* interrupts() at the end of loop()
LoopEnd ==
    /\ pc = "dev"
    /\ kk >= DEVICES_NUM
    /\ interrupts
    /\ pc' = "idle"
    /\ UNCHANGED <<dec, usrCallbackfunc, p, kk, env>>
    /\ UNCHANGED <<fed, outcome, sinkCalls, doneCalls, offered, taken, healed,
                   reading, solo>>

Next ==
    \/ \E s \in AllScripts \cup ManchesterScripts \cup PreambleScripts
                 \cup HealPrefix \cup StaleScripts : StartTx(s)
    \/ Edge
    \/ \E w \in JunkWidths \cup ElapsedWidths : Junk(w)
    \/ registerCallback
    \/ LoopBegin
    \/ LoopRead
    \/ LoopClear
    \/ LoopReturn
    \/ LoopDevice
    \/ LoopEnd

Spec == Init /\ [][Next]_vars

SpecRace == RaceInit /\ [][Next]_vars

SpecManchester == ManchesterInit /\ [][Next]_vars

SpecPreamble == PreambleInit /\ [][Next]_vars

SpecStale == StaleInit /\ [][Next]_vars

SpecSinkRace == SinkRaceInit /\ [][Next]_vars

SpecElapsed == ElapsedInit /\ [][Next]_vars

---------------------------------------------------------------------------
(* Recovery: a transmission that follows an interfering pulse              *)

\* the last width of a sequence of stored widths, 0 when nothing was stored
LastOr0(ws) == IF ws = <<>> THEN 0 ELSE ws[Len(ws)]

\* the width the last loop() invocation read from the slot
PolledWidth == LastOr0(taken)

\* the byte position device k had when that width was polled
PolledPos(k) == IF fed = <<>> THEN dec[k].pos ELSE outcome[k].pre.pos

\* widths outside the envelope of a classifier: below or above the band of
\* v1; below the band of v2.1, between its band and the sync-off threshold,
\* or a sync-off width that finds fewer than 8 bytes
OutOfEnvelope(k, w) ==
    IF Proto(k) = "v1"
    THEN w < 900 \/ w > 7000
    ELSE \/ w < 200
         \/ 1200 < w /\ w < 2500
         \/ w >= 2500 /\ PolledPos(k) < 8

\* a transmission cut short at any point by a pulse below both envelopes
HealInit ==
    /\ InitCommon
    /\ txLeft = 1
    /\ raceLeft = 0
    /\ scripts = HealPrefix
    /\ payload = <<0, 83, 2, 85, 1>>
    /\ junk = {0, 100}

\* once the interfering pulse has been polled, the transmitter starts a
\* well-formed transmission; the history keeps the width of the interfering
\* pulse, the classifiers it was out of envelope for, and the sink
\* invocations so far
Recover(s) ==
    /\ jammed
    /\ tx = NoTx
    /\ usrCallbackfunc
    /\ pc = "idle" /\ pulse = 0 /\ written = <<>> /\ taken # <<>>
    /\ ~healed.on
    /\ s \in HealScripts
    /\ tx' = TxEnter(s, 1)
    /\ sent' = s
    /\ healed' = [on |-> TRUE, base |-> sinkCalls, w |-> PolledWidth,
                  out |-> {k \in Devices : OutOfEnvelope(k, PolledWidth)}]
    /\ UNCHANGED <<prog, now, txLeft, jammed, raceLeft, scripts, payload, junk>>
    /\ UNCHANGED <<fed, outcome, sinkCalls, doneCalls, offered, written, taken,
                   late, reading, solo, since, gap>>

NextHeal ==
    \/ Next
    \/ \E s \in HealScripts : Recover(s)

SpecHeal == HealInit /\ [][NextHeal]_vars

---------------------------------------------------------------------------
(* The device models on their own: a buffer is handed to validateChecksum  *)
(* and, when valid, to the callback                                        *)

\* a buffer that holds the given bytes and zeros after them
Pad(bytes) == [i \in 1..DataLen |-> IF i <= Len(bytes) THEN bytes[i] ELSE 0]

\* v1 buffers: every channel code, several ids, digits and flags, with the
\* checksum byte right, one too large and one too small
V1Packets ==
    {Pad(<<16 * h + l, b1, b2, (16 * h + l + b1 + b2 + e) % 256>>) :
       h \in 0..15, l \in {0, 4, 15}, b1 \in {0, 9, 83, 144, 153, 255},
       b2 \in {0, 2, 15, 32, 34, 128, 165, 255}, e \in {0, 1, 255}}

\* the first two bytes of v2.1 buffers: the supported identifiers and two
\* others
V2Ids == {<<26, 45>>, <<234, 76>>, <<26, 46>>, <<0, 0>>}

\* a v2.1 buffer of the given fields, the checksum byte off by e
V2Packet(x, c, b4, b5, b6, b7, e) ==
    Pad(<<x[1], x[2], 16 * c, 139, b4, b5, b6, b7,
          ((x[1] \div 16) + (x[1] % 16) + (x[2] \div 16) + (x[2] % 16) + c
           + 8 + 11 + (b4 \div 16) + (b4 % 16) + (b5 \div 16) + (b5 % 16)
           + (b6 \div 16) + (b6 % 16) + (b7 \div 16) + (b7 % 16)
           + 246 + e) % 256, 140>>)

\* v2.1 buffers: every channel code but 0 with several digits and flags and
\* the checksum byte right or one too large, a few with the channel code 0,
\* and the two packets the source gives as examples
V2Packets ==
    {V2Packet(x, c, b4, b5, b6, b7, e) :
       x \in V2Ids, c \in 1..15, b4 \in {88, 76, 4, 240},
       b5 \in {33, 8, 153, 255, 0}, b6 \in {64, 136, 8, 247},
       b7 \in {199, 130, 15, 0}, e \in {0, 1}}
    \cup {V2Packet(x, 0, 88, 33, b6, 199, 0) : x \in V2Ids, b6 \in {64, 136}}
    \cup {Pad(V2Good), Pad(V2Nine)}

Packets(k) == IF Proto(k) = "v2" THEN V2Packets ELSE V1Packets

CallbackInit ==
    /\ InitCommon
    /\ txLeft = 0
    /\ raceLeft = 0
    /\ scripts = {}
    /\ payload = <<0, 83, 2, 85, 1>>
    /\ junk = {}

\* what device k makes of a buffer: validateChecksum and, when it is valid,
\* the callback with its getters
Deliver(k) ==
    /\ reading = NoReading
    /\ \E data \in Packets(k) :
         reading' \in
           IF validateChecksum(Proto(k), data)
           THEN osCallback(Proto(k), data)
           ELSE {[NoReading EXCEPT !.proto = Proto(k), !.data = data]}
    /\ UNCHANGED <<prog, env>>
    /\ UNCHANGED <<fed, outcome, sinkCalls, doneCalls, offered, written, taken,
                   late, healed, solo, since, gap>>

NextCallback == \E k \in Devices : Deliver(k)

SpecCallback == CallbackInit /\ [][NextCallback]_vars

---------------------------------------------------------------------------
(* Properties of the dispatcher                                            *)

\* C1: the sink is called only for a completed packet on which
\* validateChecksum returned true (the bytes checked are those still in the
\* decoder's buffer), never for a packet that failed it, and not more often
\* than packets were completed.
C1_SinkOnlyValid ==
    /\ \A k \in Devices :
         outcome[k].sunk =>
           /\ outcome[k].rc = 1
           /\ outcome[k].at.state = "DONE"
           /\ validateChecksum(Proto(k), dec[k].data)
    /\ \A k \in Devices :
         (outcome[k].at.state = "DONE"
            /\ ~validateChecksum(Proto(k), dec[k].data)) => ~outcome[k].sunk
    /\ sinkCalls <= doneCalls

\* a valid v1 packet has reached the sink
C1_Witness ==
    /\ outcome[1].sunk
    /\ sinkCalls = 1
    /\ validateChecksum("v1", dec[1].data)

BufferBits(k) == IF Proto(k) = "v2" THEN 2 * 8 * DataLen ELSE 8 * DataLen

\* C3: a classifier that has been offered as many bits as fill its buffer,
\* without a completing pulse, is in the state of an explicit reset.
C3_OverflowContained ==
    \A k \in Devices :
      offered[k] >= BufferBits(k) => Fields(dec[k]) = Fields(NewDecoder)

\* the v2.1 classifier still accumulating after more bits than fill its
\* buffer
C3_Witness ==
    /\ offered[2] > BufferBits(2)
    /\ dec[2].state \in {"OK", "T0"}
    /\ dec[2].pos < 16

---------------------------------------------------------------------------
(* Properties of the shared slot                                           *)

\* C4: of the widths externalInterrupt stored since loop() last read the
\* slot, loop() takes only the last one, and that width is what every
\* device is handed; the slot holds the last stored width or, once read and
\* cleared, nothing, so no stored width is dispatched twice.
C4_SingleSlot ==
    /\ pc \in {"clear", "exit", "dev"} => p = LastOr0(taken)
    /\ \A i \in 1..Len(fed) : fed[i][2] = LastOr0(taken)
    /\ pc \in {"idle", "read"} => pulse = LastOr0(written)

\* two different widths were stored before one read, and both devices were
\* handed the second
C4_Witness ==
    /\ pc = "dev"
    /\ Len(taken) = 2
    /\ taken[1] # taken[2]
    /\ taken[1] # 0
    /\ fed = <<<<1, taken[2]>>, <<2, taken[2]>>>>

\* C5 (as amended): in every interleaving read, clear and dispatch run
\* masked; the ISR does not write the slot between loop()'s read and the end
\* of that invocation, the value cleared is the value read, and an edge that
\* occurs during the cycle stores no width during the cycle (it is lost, or
\* latched until interrupts()).
C5_Masked ==
    /\ pc \in {"read", "clear", "exit", "dev"} => masked
    /\ pc \in {"clear", "exit", "dev"} => written = <<>>
    /\ pc = "clear" => pulse = p
    /\ pc \in {"exit", "dev"} => pulse = 0
    /\ pending => masked

\* an edge arrived during the dispatch and is latched; the slot is untouched
C5_Witness ==
    /\ pc = "dev"
    /\ kk = 1
    /\ pending
    /\ pulse = 0
    /\ written = <<>>

\* C5 as stated: the same, and an edge that occurs during the cycle never
\* produces a pulse.
C5_AsStated == C5_Masked /\ late = 0

\* C6: a non-zero width taken by loop() is handed to every device once, in
\* registration order, before loop() returns, whatever an earlier device did
\* with it.
C6_DispatchOrder ==
    /\ fed = [i \in 1..Len(fed) |-> <<i, p>>]
    /\ pc = "dev" => (Len(fed) = kk /\ p # 0)
    /\ pc \in {"read", "clear", "exit"} => fed = <<>>
    /\ (pc = "idle" /\ fed # <<>>) => Len(fed) = DEVICES_NUM

\* the first device had the sink called and the second was still handed the
\* same width
C6_Witness ==
    /\ pc = "idle"
    /\ outcome[1].sunk
    /\ fed = <<<<1, outcome[1].w>>, <<2, outcome[1].w>>>>
    /\ outcome[2].called /\ outcome[2].w = outcome[1].w

---------------------------------------------------------------------------
(* Properties of the classifiers                                           *)

\* the number of bits the buffer of d holds
StoredCount(proto, d) ==
    IF proto = "v2" THEN (d.total_bits + 1) \div 2 ELSE d.total_bits

\* bit i (from 1, in order of arrival) of the buffer of d: bit (i - 1) % 8 of
\* a whole byte; the bits of the byte being filled sit at its top
StoredBit(proto, d, i) ==
    IF (i - 1) \div 8 < d.pos
    THEN (d.data[((i - 1) \div 8) + 1] \div (2 ^ ((i - 1) % 8))) % 2
    ELSE (d.data[d.pos + 1]
            \div (2 ^ (8 - (StoredCount(proto, d) - 8 * d.pos)
                       + ((i - 1) % 8)))) % 2

Stored(proto, d) ==
    [i \in 1..StoredCount(proto, d) |-> StoredBit(proto, d, i)]

\* the first n bits of transmission s
SentBits(s, n) == [i \in 1..n |-> BitOf(Script(s).bytes, i)]

\* C7 (as amended): for the v1 classifier and every bit sequence that fits
\* the 32-bit packet, feeding the Manchester-coded widths puts exactly the
\* bits sent so far, in order, into the buffer, the flip bit being the last
\* of them; the completed packet is the four bytes sent.
C7_RoundTrip ==
    (sent = "v1any" /\ ~jammed) =>
      /\ dec[1].state \in {"OK", "T0"} /\ dec[1].total_bits > 0 =>
           /\ Stored("v1", dec[1]) = SentBits("v1any", dec[1].total_bits)
           /\ dec[1].flip = BitOf(payload, dec[1].total_bits)
      /\ (outcome[1].called /\ outcome[1].rc = 1) =>
           [i \in 1..4 |-> dec[1].data[i]] = [i \in 1..4 |-> payload[i]]

\* the v1 classifier holds twelve bits of a packet whose first bits alternate
C7_Witness ==
    /\ sent = "v1any" /\ ~jammed
    /\ payload[1] = 37
    /\ dec[1].state = "OK"
    /\ dec[1].total_bits = 12
    /\ Stored("v1", dec[1]) = <<1, 0, 1, 0, 0, 1, 0, 0, 1, 1, 0, 0>>

\* C7 as stated: for either classifier and every bit sequence, once all its
\* Manchester-coded widths have been fed the buffer holds exactly the bits
\* sent.
C7_AsStated ==
    \A k \in Devices :
      (/\ sent \in ManchesterScripts
       /\ Script(sent).proto = Proto(k)
       /\ ~jammed /\ tx = NoTx /\ pc = "idle" /\ pulse = 0) =>
         Stored(Proto(k), dec[k]) = SentBits(sent, Script(sent).to)

\* C8: the v1 classifier reports success exactly on the pulse that brings
\* total_bits from 31 to 32, with pos = 4 and bits = 0; it never holds 32
\* bits without having reported success, and never more.
C8_V1Completes ==
    /\ dec[1].total_bits < 32
    /\ outcome[1].called =>
         /\ outcome[1].rc = 1 <=> outcome[1].at.total_bits = 32
         /\ outcome[1].at.total_bits <= 32
         /\ outcome[1].rc = 1 =>
              /\ outcome[1].pre.total_bits = 31
              /\ outcome[1].at.pos = 4
              /\ outcome[1].at.bits = 0
              /\ outcome[1].at.state = "DONE"

\* the v1 classifier has reported a packet of 32 bits
C8_Witness ==
    /\ outcome[1].called
    /\ outcome[1].rc = 1
    /\ outcome[1].pre.total_bits = 31
    /\ outcome[1].at.total_bits = 32
    /\ outcome[1].at.pos = 4

\* C9: the v2.1 classifier reports success exactly on a width >= 2500 that
\* finds at least 8 bytes accumulated, in OK as in T0, without touching the
\* bit count; a width >= 2500 that finds fewer bytes, and a width outside
\* 200..1200 that is below 2500, fail and leave the classifier reset.
C9_V2SyncOff ==
    outcome[2].called =>
      /\ outcome[2].rc = 1 <=>
           (outcome[2].w >= 2500 /\ outcome[2].pre.pos >= 8)
      /\ outcome[2].rc = 1 =>
           /\ outcome[2].pre.state \in {"OK", "T0"}
           /\ outcome[2].at.total_bits = outcome[2].pre.total_bits
           /\ outcome[2].at.state = "DONE"
      /\ (/\ ~(200 <= outcome[2].w /\ outcome[2].w <= 1200)
          /\ ~(outcome[2].w >= 2500 /\ outcome[2].pre.pos >= 8)) =>
           /\ outcome[2].rc = -1
           /\ Fields(dec[2]) = Fields(NewDecoder)

\* a width of exactly 2500 completed a packet while the classifier was in T0
C9_Witness ==
    /\ outcome[2].called
    /\ outcome[2].rc = 1
    /\ outcome[2].w = 2500
    /\ outcome[2].pre.state = "T0"
    /\ outcome[2].pre.pos >= 8

\* what an in-band pulse does to the v2.1 classifier, by the state it finds:
\* o is the record of a nextPulse call, long tells how the width is classified
V2InBandEffect(o, long) ==
    CASE o.pre.state = "UNKNOWN" ->
           IF long
           THEN /\ o.rc = 0
                /\ o.at.state = "UNKNOWN"
                /\ o.at.flip = (o.pre.flip + 1) % Byte
           ELSE IF o.pre.flip >= 24
           THEN o.rc = 0 /\ o.at.state = "T0" /\ o.at.flip = 0
           ELSE o.rc = -1
      [] o.pre.state = "OK" ->
           IF long
           THEN /\ o.rc = 0
                /\ o.at.state = "OK"
                /\ o.at.total_bits = (o.pre.total_bits + 1) % Byte
                /\ o.at.flip = 1 - o.pre.flip
           ELSE /\ o.rc = 0
                /\ o.at.state = "T0"
                /\ o.at.total_bits = o.pre.total_bits
      [] o.pre.state = "T0" ->
           IF long
           THEN o.rc = -1
           ELSE /\ o.rc = 0
                /\ o.at.state = "OK"
                /\ o.at.total_bits = (o.pre.total_bits + 1) % Byte
                /\ o.at.flip = o.pre.flip
      [] OTHER -> FALSE

\* C10 (as amended): for the v2.1 classifier every width w with
\* 200 <= w < 1200 is an in-band pulse in every state, short when w < 700
\* and long when w >= 700.
C10_V2Band ==
    (outcome[2].called /\ 200 <= outcome[2].w /\ outcome[2].w < 1200) =>
       V2InBandEffect(outcome[2], outcome[2].w >= 700)

\* a width of 1199 was taken as a long pulse in OK
C10_Witness ==
    /\ outcome[2].called
    /\ outcome[2].w = 1199
    /\ outcome[2].pre.state = "OK"
    /\ outcome[2].rc = 0
    /\ outcome[2].at.total_bits = outcome[2].pre.total_bits + 1

\* C10 as stated: the same for every width w with 200 <= w <= 1200.
C10_AsStated ==
    (outcome[2].called /\ 200 <= outcome[2].w /\ outcome[2].w <= 1200) =>
       V2InBandEffect(outcome[2], outcome[2].w >= 700)

---------------------------------------------------------------------------
(* Properties of the preambles                                             *)

\* C11: a short pulse (200 <= w < 700) that finds the v2.1 classifier in
\* UNKNOWN moves it to T0 with flip = 0 if and only if at least 24 long pulses
\* in a row were counted since the last reset, however long that run is; after
\* fewer it fails; T0 is entered from UNKNOWN in no other way.
C11_V2Preamble ==
    (outcome[2].called /\ outcome[2].pre.state = "UNKNOWN") =>
      /\ (200 <= outcome[2].w /\ outcome[2].w < 700) =>
            IF outcome[2].n >= 24
            THEN /\ outcome[2].rc = 0
                 /\ outcome[2].at.state = "T0"
                 /\ outcome[2].at.flip = 0
            ELSE /\ outcome[2].rc = -1
                 /\ Fields(dec[2]) = Fields(NewDecoder)
      /\ outcome[2].at.state = "T0" =>
            /\ 200 <= outcome[2].w /\ outcome[2].w < 700
            /\ outcome[2].n >= 24

\* a short pulse after 256 long pulses in a row failed
C11_Witness ==
    /\ outcome[2].called
    /\ outcome[2].pre.state = "UNKNOWN"
    /\ outcome[2].n = 256
    /\ outcome[2].pre.flip = 0
    /\ outcome[2].w = 699
    /\ outcome[2].rc = -1

\* what the v2.1 classifier does instead: the run length counts modulo 256
C11_V2PreambleWrapped ==
    (outcome[2].called /\ outcome[2].pre.state = "UNKNOWN") =>
      /\ outcome[2].pre.flip = outcome[2].n % Byte
      /\ (200 <= outcome[2].w /\ outcome[2].w < 700) =>
            IF outcome[2].n % Byte >= 24
            THEN /\ outcome[2].rc = 0
                 /\ outcome[2].at.state = "T0"
                 /\ outcome[2].at.flip = 0
            ELSE /\ outcome[2].rc = -1
                 /\ Fields(dec[2]) = Fields(NewDecoder)

\* C12: a long pulse (2300 <= w <= 7000) that finds the v1 classifier in
\* UNKNOWN moves it to T1 with flip = 0 if and only if at least 22 short pulses
\* in a row were counted since the last reset, however long that run is; after
\* fewer it fails; T1 is entered in no other way.
C12_V1Preamble ==
    (outcome[1].called /\ outcome[1].pre.state = "UNKNOWN") =>
      /\ (2300 <= outcome[1].w /\ outcome[1].w <= 7000) =>
            IF outcome[1].n >= 22
            THEN /\ outcome[1].rc = 0
                 /\ outcome[1].at.state = "T1"
                 /\ outcome[1].at.flip = 0
            ELSE /\ outcome[1].rc = -1
                 /\ Fields(dec[1]) = Fields(NewDecoder)
      /\ outcome[1].at.state = "T1" =>
            /\ 2300 <= outcome[1].w /\ outcome[1].w <= 7000
            /\ outcome[1].n >= 22

\* a long pulse after 277 short pulses in a row failed
C12_Witness ==
    /\ outcome[1].called
    /\ outcome[1].pre.state = "UNKNOWN"
    /\ outcome[1].n = 277
    /\ outcome[1].pre.flip = 21
    /\ outcome[1].w = 2300
    /\ outcome[1].rc = -1

\* what the v1 classifier does instead: the run length counts modulo 256
C12_V1PreambleWrapped ==
    (outcome[1].called /\ outcome[1].pre.state = "UNKNOWN") =>
      /\ outcome[1].pre.flip = outcome[1].n % Byte
      /\ (2300 <= outcome[1].w /\ outcome[1].w <= 7000) =>
            IF outcome[1].n % Byte >= 22
            THEN /\ outcome[1].rc = 0
                 /\ outcome[1].at.state = "T1"
                 /\ outcome[1].at.flip = 0
            ELSE /\ outcome[1].rc = -1
                 /\ Fields(dec[1]) = Fields(NewDecoder)

---------------------------------------------------------------------------
(* Properties of the v2.1 bit emission                                     *)

\* the bits a v2.1 buffer holds when the first n bits of the running
\* transmission were offered and every second one was discarded: the offered
\* bits 1, 3, 5, ...
OddOffered(n) == [i \in 1..((n + 1) \div 2) |-> TxBit(Script(sent), 2 * i - 1)]

\* the transmission feeding the v2.1 classifier is undisturbed
V2Feeding == sent \in AllScripts /\ Script(sent).proto = "v2" /\ ~jammed

\* C13: after k bits offered to the v2.1 gotBit since the last reset,
\* total_bits is k, pos is k div 16 and the buffer holds the offered bits
\* 1, 3, 5, ..., ceil(k / 2) of them: one of every two is written; gotBit
\* leaves the flip bit alone.
C13_V2Duplication ==
    dec[2].state \in {"OK", "T0"} =>
      /\ dec[2].total_bits = offered[2]
      /\ dec[2].pos = offered[2] \div 16
      /\ V2Feeding => Stored("v2", dec[2]) = OddOffered(offered[2])
      /\ \A b \in {0, 1} : gotBit_v2(dec[2], b).flip = dec[2].flip

\* 256 bits were offered and the counters are those of an empty buffer
C13_Witness ==
    /\ dec[2].state \in {"OK", "T0"}
    /\ offered[2] = 256
    /\ dec[2].total_bits = 0
    /\ dec[2].pos = 0

\* what the v2.1 gotBit does instead: the statement of C13 up to 255 offered
\* bits, and the count modulo 256 beyond
C13_V2DuplicationWrapped ==
    dec[2].state \in {"OK", "T0"} =>
      /\ dec[2].total_bits = offered[2] % Byte
      /\ dec[2].pos = (offered[2] % Byte) \div 16
      /\ (V2Feeding /\ offered[2] < Byte) =>
            Stored("v2", dec[2]) = OddOffered(offered[2])
      /\ \A b \in {0, 1} : gotBit_v2(dec[2], b).flip = dec[2].flip

---------------------------------------------------------------------------
(* Properties of the failure handling                                      *)

\* the last loop() invocation called the sink for device k
SunkNow(k) == fed # <<>> /\ outcome[k].sunk

\* C14 (as amended): a pulse of positive width outside a classifier's
\* envelope, once stored by the ISR and polled by loop(), leaves that
\* classifier in UNKNOWN with zeroed counters, whatever state it was in, and
\* the sink is not called for it.
C14_OutOfEnvelope ==
    (pc = "idle" /\ taken # <<>> /\ PolledWidth # 0) =>
      \A k \in Devices :
        OutOfEnvelope(k, PolledWidth) =>
          /\ Fields(dec[k]) = Fields(NewDecoder)
          /\ ~SunkNow(k)

\* a width of 2500 found the v2.1 classifier accumulating its eighth byte
\* and reset it
C14_Witness ==
    /\ pc = "idle"
    /\ taken = <<2500>>
    /\ outcome[2].pre.state = "OK"
    /\ outcome[2].pre.pos = 7
    /\ outcome[2].rc = -1
    /\ Fields(dec[2]) = Fields(NewDecoder)

\* C14 as stated: the same for every pulse of non-negative width.
C14_AsStated ==
    (pc = "idle" /\ taken # <<>>) =>
      \A k \in Devices :
        OutOfEnvelope(k, PolledWidth) =>
          /\ Fields(dec[k]) = Fields(NewDecoder)
          /\ ~SunkNow(k)

---------------------------------------------------------------------------
(* Properties of the recovery                                              *)

\* the device a transmission is meant for
Addressee(s) == IF Script(s).proto = "v1" THEN 1 ELSE 2

\* the transmission that followed the interfering pulse has been delivered
\* and polled to its last pulse
Recovered ==
    /\ healed.on
    /\ tx = NoTx
    /\ pc = "idle" /\ pulse = 0 /\ written = <<>>

\* the packet of the transmission sent last is in the buffer of its device
PacketIn(k) ==
    \A i \in 1..Len(Script(sent).bytes) : dec[k].data[i] = Script(sent).bytes[i]

\* C15: whatever state an interrupted transmission left, after one pulse
\* outside the envelope of a classifier and a complete well-formed
\* transmission with a valid checksum for that classifier (a preamble of at
\* least 22 short pulses for v1, at least 24 long ones for v2.1), every pulse
\* polled before the next, the sink has been called exactly once more, for
\* the packet sent, and never more than once on the way.
C15_SelfHealing ==
    (healed.on /\ Addressee(sent) \in healed.out) =>
      /\ sinkCalls <= healed.base + 1
      /\ Recovered =>
            /\ sinkCalls = healed.base + 1
            /\ PacketIn(Addressee(sent))

\* a v1 transmission with a preamble of 256 short pulses followed a pulse of
\* 100 us, was polled to its last pulse, and the sink was not called
C15_Witness ==
    /\ Recovered
    /\ sent = "v1wrap"
    /\ healed.w = 100
    /\ healed.out = Devices
    /\ sinkCalls = healed.base
    /\ outcome[1].rc = -1

\* what the program does instead: the statement of C15 for an interfering
\* pulse of positive width and a preamble that stays within the range of
\* the counter flip
C15_SelfHealingInRange ==
    (/\ healed.on /\ healed.w # 0
     /\ Addressee(sent) \in healed.out
     /\ Len(Script(sent).head) < Byte) =>
      /\ sinkCalls <= healed.base + 1
      /\ Recovered =>
            /\ sinkCalls = healed.base + 1
            /\ PacketIn(Addressee(sent))
            /\ outcome[Addressee(sent)].sunk

\* the v2.1 classifier was cut short while accumulating, and the packet of
\* the transmission that followed the interfering pulse reached the sink
C15_HealedWitness ==
    /\ Recovered
    /\ sent = "v2nine"
    /\ healed.w = 100
    /\ sinkCalls = healed.base + 1
    /\ dec[2].data[3] = 64

---------------------------------------------------------------------------
(* Properties of the device models.  byte n of a packet, counted from 0 as *)
(* in the code, is reading.data[n + 1].                                    *)

\* the two nibbles of a byte, added
Nibbles(b) == (b \div 16) + (b % 16)

\* whether bit m (a power of two) of byte b is set
BitSet(b, m) == (b \div m) % 2 = 1

\* the two-byte identifier of a v2.1 packet
Identifier(data) == 256 * data[1] + data[2]

\* C16: the v1 validateChecksum is true if and only if byte 0 + byte 1 +
\* byte 2 modulo 256 equals byte 3; it is true for [0x44, 0x53, 0x02, 0x99].
C16_V1Checksum ==
    reading.proto = "v1" =>
      /\ reading.valid <=>
            (reading.data[1] + reading.data[2] + reading.data[3]) % 256
              = reading.data[4]
      /\ reading.data = Pad(<<68, 83, 2, 153>>) => reading.valid

\* a v1 packet whose three bytes add up to more than a byte was found valid
C16_Witness ==
    /\ reading.proto = "v1"
    /\ reading.valid
    /\ reading.data[1] + reading.data[2] + reading.data[3] > 255
    /\ reading.data[4] < 16

\* C17: the v2.1 validateChecksum is false for every packet whose identifier
\* is neither 0x1A2D nor 0xEA4C; for those two the checksum position is
\* nibble 16 and the result is true if and only if the 16 nibbles of bytes
\* 0..7, added, less 0x0A, modulo 256, equal byte 8; it is true for
\* [0x1A, 0x2D, 0x20, 0x8B, 0x58, 0x21, 0x40, 0xC7, 0x4C, 0x8C].
C17_V2Checksum ==
    reading.proto = "v2" =>
      /\ Identifier(reading.data) \notin {6701, 59980} => ~reading.valid
      /\ Identifier(reading.data) \in {6701, 59980} =>
            /\ getChecksumPos(reading.data) = 16
            /\ reading.valid <=>
                  (Nibbles(reading.data[1]) + Nibbles(reading.data[2])
                   + Nibbles(reading.data[3]) + Nibbles(reading.data[4])
                   + Nibbles(reading.data[5]) + Nibbles(reading.data[6])
                   + Nibbles(reading.data[7]) + Nibbles(reading.data[8])
                   - 10) % 256 = reading.data[9]
      /\ reading.data = Pad(<<26, 45, 32, 139, 88, 33, 64, 199, 76, 140>>) =>
            reading.valid

\* the example packet of a THGR228N was found valid
C17_Witness ==
    /\ reading.proto = "v2"
    /\ reading.valid
    /\ reading.data = Pad(<<26, 45, 32, 139, 88, 33, 64, 199, 76, 140>>)

\* C18: for every packet that passes validateChecksum getChannel returns 1,
\* 2 or 3: v1 maps the high nibble of byte 0 as 0 -> 1, 2 -> 1, 4 -> 2,
\* 8 -> 3, v2.1 maps the high nibble of byte 2 to 1, 2 or 3.
C18_Channel ==
    reading.valid =>
      /\ reading.channel \in {1, 2, 3}
      /\ reading.proto = "v1" =>
            /\ reading.data[1] \div 16 \in {0, 2} => reading.channel = 1
            /\ reading.data[1] \div 16 = 4 => reading.channel = 2
            /\ reading.data[1] \div 16 = 8 => reading.channel = 3

\* the valid THGR228N packet with the channel code 4 was given channel 8
C18_Witness ==
    /\ reading.valid
    /\ reading.proto = "v2"
    /\ reading.data = Pad(<<26, 45, 64, 88, 76, 8, 136, 130, 83>>)
    /\ reading.channel = 8

\* what getChannel returns instead: v1 gives 1, 1, 2, 3 for the codes 0, 2,
\* 4, 8 and 0 for every other code; v2.1 gives 2 ^ (code - 1) as a byte for
\* every code but 0, so 1 and 2 for the codes 1 and 2 and never 3
C18_ChannelAsCoded ==
    reading.valid =>
      /\ reading.proto = "v1" =>
            /\ reading.data[1] \div 16 \in {0, 2} => reading.channel = 1
            /\ reading.data[1] \div 16 = 4 => reading.channel = 2
            /\ reading.data[1] \div 16 = 8 => reading.channel = 3
            /\ reading.data[1] \div 16 \notin {0, 2, 4, 8} => reading.channel = 0
      /\ reading.proto = "v2" =>
            /\ reading.data[3] \div 16 = 1 => reading.channel = 1
            /\ reading.data[3] \div 16 = 2 => reading.channel = 2
            /\ reading.data[3] \div 16 = 3 => reading.channel = 4
            /\ reading.data[3] \div 16 \in 4..8 =>
                  reading.channel = 2 ^ ((reading.data[3] \div 16) - 1)
            /\ reading.data[3] \div 16 > 8 => reading.channel = 0
            /\ reading.data[3] \div 16 # 0 => reading.channel # 3

\* C19: from a validated v2.1 packet the temperature in tenths is
\* 100 * (byte 5 >> 4) + 10 * (byte 5 & 0x0F) + (byte 4 >> 4), negative iff
\* bit 0x08 of byte 6 is set; the humidity is 10 * (byte 7 & 0x0F) +
\* (byte 6 >> 4); the battery is good iff bit 0x04 of byte 4 is clear; the
\* model is named by the identifier the checksum lookup uses.  The first
\* example packet gives THGR228N, +21.5, 74, good, channel 2; the second
\* gives -8.4 and 28.
C19_V2Fields ==
    (reading.valid /\ reading.proto = "v2") =>
      /\ reading.temperature =
            (IF BitSet(reading.data[7], 8) THEN -1 ELSE 1)
            * (100 * (reading.data[6] \div 16) + 10 * (reading.data[6] % 16)
               + (reading.data[5] \div 16))
      /\ reading.humidity =
            10 * (reading.data[8] % 16) + (reading.data[7] \div 16)
      /\ reading.battery <=> ~BitSet(reading.data[5], 4)
      /\ reading.model =
            IF Identifier(reading.data) = 6701 THEN "THGR228N" ELSE "THN132N"
      /\ Identifier(reading.data) \in {6701, 59980}
      /\ reading.data = Pad(<<26, 45, 32, 139, 88, 33, 64, 199, 76, 140>>) =>
            /\ reading.model = "THGR228N"
            /\ reading.temperature = 215
            /\ reading.humidity = 74
            /\ reading.battery
            /\ reading.channel = 2
      /\ reading.data = Pad(<<26, 45, 64, 88, 76, 8, 136, 130, 83>>) =>
            /\ reading.temperature = -84
            /\ reading.humidity = 28

\* the second example packet was read as -8.4 degrees and 28 percent
C19_Witness ==
    /\ reading.valid
    /\ reading.proto = "v2"
    /\ reading.data = Pad(<<26, 45, 64, 88, 76, 8, 136, 130, 83>>)
    /\ reading.temperature = -84
    /\ reading.humidity = 28

\* C20: from a validated v1 packet the temperature in tenths is
\* 100 * (byte 2 & 0x0F) + 10 * (byte 1 >> 4) + (byte 1 & 0x0F), negative iff
\* bit 0x20 of byte 2 is set; the battery is good iff bit 0x80 of byte 2 is
\* clear; the id is the low nibble of byte 0; the model is the generic v1
\* label and the version the v1 tag.  [0x44, 0x53, 0x02, 0x99] gives +25.3,
\* good, id 4, channel 2.
C20_V1Fields ==
    (reading.valid /\ reading.proto = "v1") =>
      /\ reading.temperature =
            (IF BitSet(reading.data[3], 32) THEN -1 ELSE 1)
            * (100 * (reading.data[3] % 16) + 10 * (reading.data[2] \div 16)
               + (reading.data[2] % 16))
      /\ reading.battery <=> ~BitSet(reading.data[3], 128)
      /\ reading.id = reading.data[1] % 16
      /\ reading.model = "Generic OS v1"
      /\ reading.version = "v1"
      /\ reading.data = Pad(<<68, 83, 2, 153>>) =>
            /\ reading.temperature = 253
            /\ reading.battery
            /\ reading.id = 4
            /\ reading.channel = 2

\* the example packet was read as +25.3 degrees, battery good, id 4,
\* channel 2
C20_Witness ==
    /\ reading.valid
    /\ reading.proto = "v1"
    /\ reading.data = Pad(<<68, 83, 2, 153>>)
    /\ reading.temperature = 253
    /\ reading.battery
    /\ reading.id = 4
    /\ reading.channel = 2

---------------------------------------------------------------------------
(* Properties of the checksums under corruption                            *)

\* the buffer with bit i (from 1: bit (i - 1) % 8 of byte (i - 1) \div 8)
\* inverted
FlipBit(data, i) ==
    [data EXCEPT ![((i - 1) \div 8) + 1] =
       IF (@ \div (2 ^ ((i - 1) % 8))) % 2 = 1
       THEN @ - 2 ^ ((i - 1) % 8)
       ELSE @ + 2 ^ ((i - 1) % 8)]

\* the bits the checksum covers: bytes 0..2 of a v1 packet, the nibbles
\* before the checksum position of a v2.1 packet
CoveredBits(proto, data) ==
    IF proto = "v2" THEN 1..(4 * getChecksumPos(data)) ELSE 1..24

\* C21: for every packet that passes validateChecksum there is a bit in the
\* region the checksum covers whose inversion makes validateChecksum return
\* false.
C21_Corruption ==
    reading.valid =>
      \E i \in CoveredBits(reading.proto, reading.data) :
        ~validateChecksum(reading.proto, FlipBit(reading.data, i))

\* the valid THGR228N example packet, and its copy with the lowest bit of
\* byte 4 inverted, which is rejected
C21_Witness ==
    /\ reading.valid
    /\ reading.proto = "v2"
    /\ reading.data = Pad(<<26, 45, 32, 139, 88, 33, 64, 199, 76, 140>>)
    /\ CoveredBits("v2", reading.data) = 1..64
    /\ FlipBit(reading.data, 33)[5] = 89
    /\ ~validateChecksum("v2", FlipBit(reading.data, 33))

\* more than C21 asks: the inversion of any one covered bit is detected
C21_EveryBit ==
    reading.valid =>
      \A i \in CoveredBits(reading.proto, reading.data) :
        ~validateChecksum(reading.proto, FlipBit(reading.data, i))

---------------------------------------------------------------------------
(* Properties of the bit packing                                           *)

\* the last nextPulse call of device k appended a bit
Appended(k) ==
    /\ outcome[k].called
    /\ outcome[k].rc # -1
    /\ outcome[k].at.total_bits # outcome[k].pre.total_bits

\* the byte whose bit 0 is bit 8j - 7 of the transmission "v1any" and whose
\* bit 7 is bit 8j: the first-sent bit lowest
ByteSent(j) ==
    TxBit(Script("v1any"), 8 * j - 7)
    + 2 * TxBit(Script("v1any"), 8 * j - 6)
    + 4 * TxBit(Script("v1any"), 8 * j - 5)
    + 8 * TxBit(Script("v1any"), 8 * j - 4)
    + 16 * TxBit(Script("v1any"), 8 * j - 3)
    + 32 * TxBit(Script("v1any"), 8 * j - 2)
    + 64 * TxBit(Script("v1any"), 8 * j - 1)
    + 128 * TxBit(Script("v1any"), 8 * j)

\* C22: the base gotBit shifts each bit in at the top of the current byte,
\* the earlier bits moving down, so that a byte of 8 appended bits has the
\* first-appended bit as bit 0 and the last-appended as bit 7; each call adds
\* one to total_bits and to bits, and the 8th bit of a byte adds one to pos
\* and zeroes bits.
C22_BitPacking ==
    /\ Appended(1) =>
         /\ outcome[1].at.total_bits = outcome[1].pre.total_bits + 1
         /\ IF outcome[1].pre.bits = 7
            THEN /\ outcome[1].at.bits = 0
                 /\ outcome[1].at.pos = outcome[1].pre.pos + 1
            ELSE /\ outcome[1].at.bits = outcome[1].pre.bits + 1
                 /\ outcome[1].at.pos = outcome[1].pre.pos
    /\ (sent = "v1any" /\ ~jammed /\ Appended(1)) =>
         /\ \A j \in 1..outcome[1].at.pos : dec[1].data[j] = ByteSent(j)
         /\ outcome[1].at.bits > 0 =>
              /\ dec[1].data[outcome[1].at.pos + 1] \div 128
                   = TxBit(Script("v1any"), outcome[1].at.total_bits)
              /\ outcome[1].at.bits > 1 =>
                   (dec[1].data[outcome[1].at.pos + 1] \div 64) % 2
                     = TxBit(Script("v1any"), outcome[1].at.total_bits - 1)

\* the 32nd bit completed the fourth byte of a packet: its first-appended bit,
\* 0, is bit 0 and its last-appended bit, 1, is bit 7
C22_Witness ==
    /\ sent = "v1any" /\ ~jammed
    /\ Appended(1)
    /\ outcome[1].pre.bits = 7 /\ outcome[1].pre.pos = 3
    /\ outcome[1].at.bits = 0 /\ outcome[1].at.pos = 4
    /\ payload[4] = 148
    /\ dec[1].data[4] = 148
    /\ TxBit(Script("v1any"), 25) = 0
    /\ TxBit(Script("v1any"), 32) = 1

---------------------------------------------------------------------------
(* Properties of the buffer bounds                                         *)

\* C23: the byte position of either classifier is always below the length
\* of the buffer, so every write to data[pos] is in bounds; the bit that
\* would move the position to the length of the buffer (the last of the bits
\* that fill it) resets the classifier to UNKNOWN with empty counters
\* instead.
C23_PosBelowLength ==
    \A k \in Devices :
      /\ dec[k].pos < DataLen
      /\ (Appended(k) /\ offered[k] = BufferBits(k)) =>
            Fields(dec[k]) = Fields(NewDecoder)

\* the 400th bit offered to the v2.1 classifier, which fills the 25th byte,
\* left it accumulating at byte 9
C23_Witness ==
    /\ Appended(2)
    /\ offered[2] = BufferBits(2)
    /\ outcome[2].at.state = "OK"
    /\ outcome[2].at.total_bits = 144
    /\ outcome[2].at.pos = 9
    /\ dec[2].state = "OK"

\* what the classifiers do instead: the position stays in bounds because the
\* v1 classifier completes at 4 bytes and the bit count of the v2.1
\* classifier wraps at 256, which keeps its position below 16; no reachable
\* bit takes the reset of gotBit
C23_PosInBounds ==
    /\ dec[1].pos <= 4
    /\ dec[2].pos <= 15
    /\ \A k \in Devices : dec[k].pos < DataLen
    /\ \A k \in Devices :
         Appended(k) => outcome[k].at.state \in {"OK", "DONE"}

---------------------------------------------------------------------------
(* Properties of the devices side by side                                  *)

\* C24: after any sequence of loop() invocations the state, counters and
\* buffer of each device's classifier are those of the same device on a
\* bridge of its own handed the same widths: they depend on the widths
\* dispatched only, not on the other device being registered nor on its
\* progress, completion, checksum result or sink invocation.
C24_Independence ==
    /\ pc \in {"idle", "read", "clear", "exit"} => dec = solo
    /\ pc = "dev" => \A k \in Devices : k <= kk => dec[k] = solo[k]

\* the v2.1 device completed a valid packet and had the sink called in the
\* invocation in which the v1 device failed, and the v1 device was handed
\* the width first; each decoder is as it would be alone
C24_Witness ==
    /\ pc = "idle"
    /\ fed = <<<<1, outcome[2].w>>, <<2, outcome[2].w>>>>
    /\ outcome[1].rc = -1
    /\ outcome[2].rc = 1 /\ outcome[2].sunk
    /\ dec[2].data[1] = 26
    /\ dec = solo

---------------------------------------------------------------------------
(* Properties of the v1 calibration                                        *)

\* C25: the v1 classifier starts accumulating only through T1 then T2.  In
\* T1 a width in 5550..6000 moves to T2 and any other width fails.  In T2 a
\* width in 4800..5400 sets flip to 1 and moves to T0 without a bit, so that
\* the short pulse that follows appends 1 as the first bit; a width in
\* 6480..6880 appends 0 as the first bit and moves to OK with flip 0; any
\* other width fails.
C25_V1Calibration ==
    outcome[1].called =>
      /\ outcome[1].pre.state = "T1" =>
            IF 5550 <= outcome[1].w /\ outcome[1].w <= 6000
            THEN /\ outcome[1].rc = 0
                 /\ outcome[1].at.state = "T2"
                 /\ outcome[1].at.total_bits = 0
            ELSE /\ outcome[1].rc = -1
                 /\ Fields(dec[1]) = Fields(NewDecoder)
      /\ outcome[1].pre.state = "T2" =>
            IF 4800 <= outcome[1].w /\ outcome[1].w <= 5400
            THEN /\ outcome[1].rc = 0
                 /\ outcome[1].at.state = "T0"
                 /\ outcome[1].at.flip = 1
                 /\ outcome[1].at.total_bits = 0
            ELSE IF 6480 <= outcome[1].w /\ outcome[1].w <= 6880
            THEN /\ outcome[1].rc = 0
                 /\ outcome[1].at.state = "OK"
                 /\ outcome[1].at.flip = 0
                 /\ outcome[1].at.total_bits = 1
                 /\ dec[1].data[1] \div 128 = 0
            ELSE /\ outcome[1].rc = -1
                 /\ Fields(dec[1]) = Fields(NewDecoder)
      /\ (/\ outcome[1].pre.state = "T0" /\ outcome[1].pre.total_bits = 0
          /\ 900 <= outcome[1].w /\ outcome[1].w < 2300) =>
            /\ outcome[1].rc = 0
            /\ outcome[1].at.state = "OK"
            /\ outcome[1].at.total_bits = 1
            /\ dec[1].data[1] \div 128 = 1
      /\ outcome[1].at.state = "T2" => outcome[1].pre.state = "T1"
      /\ (/\ outcome[1].at.state \in {"OK", "T0"}
          /\ outcome[1].pre.state \notin {"OK", "T0"}) =>
            outcome[1].pre.state = "T2"
      /\ (outcome[1].pre.state = "T0" /\ outcome[1].pre.total_bits = 0) =>
            outcome[1].pre.flip = 1

\* a width of 6880 found the v1 classifier in T2 and was taken as the first
\* bit, 0
C25_Witness ==
    /\ outcome[1].called
    /\ outcome[1].pre.state = "T2"
    /\ outcome[1].w = 6880
    /\ outcome[1].at.state = "OK"
    /\ outcome[1].at.total_bits = 1
    /\ outcome[1].at.flip = 0
    /\ dec[1].data[1] \div 128 = 0

\* the short pulse after a T2 width in 4800..5400 appended 1 as the first bit
C25_FirstBitOne ==
    /\ outcome[1].called
    /\ outcome[1].pre.state = "T0"
    /\ outcome[1].pre.total_bits = 0
    /\ outcome[1].at.total_bits = 1
    /\ dec[1].data[1] \div 128 = 1

---------------------------------------------------------------------------
(* Properties of the Manchester pairs                                      *)

\* the bands of the two classifiers and their long pulses
InBand(k, w) == IF Proto(k) = "v2" THEN 200 <= w /\ w < 1200
                ELSE 900 <= w /\ w <= 7000

IsLong(k, w) == IF Proto(k) = "v2" THEN w >= 700 ELSE w >= 2300

\* the bit the last gotBit call of device k put into the buffer is b: the
\* top bit of the byte written.  The v2.1 gotBit writes the bits it is
\* offered at an even count only.
TopBitIs(k, b) ==
    IF Proto(k) = "v2"
    THEN outcome[k].pre.total_bits % 2 = 0 =>
           dec[k].data[outcome[k].pre.pos + 1] \div 128 = b
    ELSE dec[k].data[outcome[k].pre.pos + 1] \div 128 = b

\* the last nextPulse call of device k appended the bit b and left the
\* classifier in OK (DONE when the bit completed a v1 packet)
AppendedBit(k, b) ==
    /\ outcome[k].rc \in {0, 1}
    /\ outcome[k].at.state = IF outcome[k].rc = 1 THEN "DONE" ELSE "OK"
    /\ outcome[k].at.total_bits = (outcome[k].pre.total_bits + 1) % Byte
    /\ outcome[k].at.flip = b
    /\ TopBitIs(k, b)

\* C26: in both classifiers a short pulse in OK moves to T0 without
\* appending a bit; a long pulse in OK toggles flip, appends it and stays in
\* OK; a short pulse in T0 appends the unchanged flip and returns to OK; an
\* in-band pulse in T0 that is not short fails and resets the classifier.
C26_ManchesterPairs ==
    \A k \in Devices :
      (outcome[k].called /\ InBand(k, outcome[k].w)) =>
        /\ outcome[k].pre.state = "OK" =>
             IF IsLong(k, outcome[k].w)
             THEN AppendedBit(k, 1 - outcome[k].pre.flip)
             ELSE /\ outcome[k].rc = 0
                  /\ outcome[k].at.state = "T0"
                  /\ outcome[k].at.total_bits = outcome[k].pre.total_bits
                  /\ outcome[k].at.flip = outcome[k].pre.flip
        /\ outcome[k].pre.state = "T0" =>
             IF IsLong(k, outcome[k].w)
             THEN /\ outcome[k].rc = -1
                  /\ Fields(dec[k]) = Fields(NewDecoder)
             ELSE AppendedBit(k, outcome[k].pre.flip)

\* a pulse of 2300 us, long for v1, found the v1 classifier in OK with flip 0,
\* toggled flip and appended a 1
C26_Witness ==
    /\ outcome[1].called
    /\ outcome[1].pre.state = "OK" /\ outcome[1].pre.flip = 0
    /\ outcome[1].w = 2300
    /\ outcome[1].at.state = "OK" /\ outcome[1].at.flip = 1
    /\ outcome[1].at.total_bits = outcome[1].pre.total_bits + 1
    /\ dec[1].data[outcome[1].pre.pos + 1] \div 128 = 1

\* a pulse of 700 us, long for v2.1, found the v2.1 classifier in T0 and
\* reset it
C26_T0Long ==
    /\ outcome[2].called
    /\ outcome[2].pre.state = "T0"
    /\ outcome[2].w = 700
    /\ outcome[2].rc = -1
    /\ Fields(dec[2]) = Fields(NewDecoder)

---------------------------------------------------------------------------
(* Properties of the bytes the v2.1 checksum reads                         *)

\* the bits the v2.1 gotBit stored in the current attempt: one of every two
\* offered
StoredNow == (offered[2] + 1) \div 2

\* C27: whenever the v2.1 checksum validation runs on a completed packet,
\* the bytes it reads (0..7 for the nibble sum, 8 as the checksum) were all
\* fully written by bits of that packet, so that no byte an earlier packet
\* or attempt left in the buffer has a say in the call of the sink.
C27_FreshBytes ==
    (outcome[2].called /\ outcome[2].rc = 1) => StoredNow >= 8 * 9

\* a packet cut off after its eighth byte was validated against the checksum
\* byte the packet before it had left in the buffer, and reached the sink
C27_Witness ==
    /\ sent = "v2eight"
    /\ outcome[2].called /\ outcome[2].rc = 1
    /\ offered[2] = 128
    /\ outcome[2].at.pos = 8
    /\ dec[2].data[9] = 76
    /\ outcome[2].sunk
    /\ sinkCalls = 2

\* what the program ensures instead: bytes 0..7 were written by the packet
\* validated; byte 8 need not be
C27_EightBytes ==
    (outcome[2].called /\ outcome[2].rc = 1) => StoredNow >= 8 * 8

---------------------------------------------------------------------------
(* Properties of the two protocols on one pulse stream                     *)

\* C28: with both devices registered and handed the same widths, at the end
\* of every loop() invocation at most one of the two classifiers is outside
\* UNKNOWN, and in no invocation do both classifiers complete a packet; so
\* the sink is called at most once for a dispatched width.
C28_OneProtocol ==
    /\ pc = "idle" =>
         (dec[1].state = "UNKNOWN" \/ dec[2].state = "UNKNOWN")
    /\ Len(fed) = DEVICES_NUM =>
         /\ ~(outcome[1].rc = 1 /\ outcome[2].rc = 1)
         /\ ~(outcome[1].sunk /\ outcome[2].sunk)

\* both classifiers had made progress on the same widths: one width took
\* the v1 classifier out of UNKNOWN after 22 or more pulses it had counted
\* as its preamble, and completed a packet of the v2.1 classifier, which is
\* back in UNKNOWN
C28_Witness ==
    /\ pc = "idle"
    /\ Len(fed) = DEVICES_NUM
    /\ outcome[1].pre.state = "UNKNOWN" /\ outcome[1].pre.flip >= 22
    /\ outcome[1].at.state = "T1"
    /\ outcome[2].w = outcome[1].w
    /\ outcome[2].rc = 1
    /\ dec[1].state = "T1"
    /\ dec[2].state = "UNKNOWN"

---------------------------------------------------------------------------
(* Properties of the empty slot                                            *)

\* the running loop() invocation found the slot equal to 0
EmptyRun ==
    \/ pc = "read" /\ pulse = 0
    \/ pc \in {"clear", "exit"} /\ p = 0

\* no step taken while such an invocation runs changes a classifier, calls
\* the sink or hands a width to a device, and the slot is 0 after it unless
\* interrupts() ran the ISR for an edge latched meanwhile
EmptyRunStep ==
    EmptyRun =>
      /\ dec' = dec
      /\ sinkCalls' = sinkCalls
      /\ doneCalls' = doneCalls
      /\ outcome' = outcome
      /\ fed' = <<>>
      /\ late' = late => pulse' = 0

\* C29: a loop() invocation that finds the slot equal to 0 changes nothing:
\* no classifier's state, counters or buffer changes, the sink is not called
\* and the slot stays 0; a stored width of 0 is the same as an empty slot and
\* is never handed to a classifier.
C29_EmptySlot ==
    /\ [](\A i \in 1..Len(fed) : fed[i][2] # 0)
    /\ [](\A k \in Devices : outcome[k].called => outcome[k].w # 0)
    /\ [][EmptyRunStep]_vars

\* the ISR stored a width of 0, loop() read it and is about to return; the
\* v1 classifier keeps the preamble pulses it had counted
C29_Witness ==
    /\ pc = "exit"
    /\ p = 0
    /\ taken # <<>> /\ PolledWidth = 0
    /\ fed = <<>>
    /\ dec[1].flip > 0
    /\ pulse = 0

---------------------------------------------------------------------------
(* Properties of the masking around the sink                               *)

\* a step in which the sink is called
SinkStep == sinkCalls' # sinkCalls

\* C30: loop() returns with the interrupt source unmasked on every path
\* (empty slot, no device complete, checksum failure, sink called), and the
\* sink always runs with the source masked, so that the slot cannot change
\* while it runs.
C30_MaskedSink ==
    /\ [](pc = "idle" => ~masked)
    /\ [](pc \in {"read", "clear", "exit", "dev"} => masked)
    /\ [][SinkStep => masked /\ masked' /\ pulse = 0 /\ pulse' = 0]_vars
    /\ [][(pc = "dev" /\ pc' = "dev") => pulse' = pulse /\ written' = written]_vars
    /\ [][(pc \in {"exit", "dev"} /\ pc' = "idle") => ~masked']_vars

\* the sink ran for the v1 device, an edge that arrived before the for loop
\* was over is latched, and the slot is still empty
C30_Witness ==
    /\ pc = "dev"
    /\ kk = 1
    /\ outcome[1].sunk /\ fed = <<<<1, p>>>>
    /\ masked
    /\ pending
    /\ pulse = 0

\* loop() has returned, unmasked, from an invocation in which the sink was
\* called
C30_SinkPath ==
    /\ pc = "idle" /\ ~masked
    /\ Len(fed) = DEVICES_NUM
    /\ outcome[1].sunk

\* loop() has returned, unmasked, from an invocation in which a packet was
\* completed and failed its checksum
C30_ChecksumPath ==
    /\ pc = "idle" /\ ~masked
    /\ Len(fed) = DEVICES_NUM
    /\ outcome[1].rc = 1 /\ ~outcome[1].valid

\* loop() has returned, unmasked, from an invocation in which no device
\* completed a packet
C30_NoPacketPath ==
    /\ pc = "idle" /\ ~masked
    /\ Len(fed) = DEVICES_NUM
    /\ outcome[1].rc # 1 /\ outcome[2].rc # 1


---------------------------------------------------------------------------
(* C31: the stored width is the time since the ISR last ran, modulo 2^16   *)

\* the width the ISR stored last
StoredLast == written[Len(written)]

\* C31: the remembered timestamp last is the time of the ISR's latest run
\* modulo 2^16 (so it equals the current time right after a run), and the
\* width the ISR stores is the time elapsed since its previous run, not
\* since the previous edge, reduced modulo 2^16: the interval of an edge lost
\* while masked is part of the next stored width, and an elapsed time that
\* is a multiple of 2^16 is stored as 0.
C31_Elapsed ==
    /\ (now + Word - last) % Word = since % Word
    /\ since = 0 => last = now
    /\ written # <<>> =>
         /\ StoredLast = gap.t % Word
         /\ pulse = StoredLast
         /\ gap.t % Word = 0 => pulse = 0

\* an edge was lost while masked, none was latched, and the next edge came
\* exactly 2^16 microseconds after the ISR's previous run: the ISR stored 0
C31_Witness ==
    /\ written # <<>>
    /\ late = 0
    /\ gap.w > 0
    /\ gap.t > gap.w
    /\ gap.t = Word
    /\ StoredLast = 0
    /\ last = now

\* a lost edge's interval is in the stored width without any wrap-around
C31_LostEdgeAdded ==
    /\ written # <<>>
    /\ late = 0
    /\ gap.w > 0
    /\ gap.t > gap.w
    /\ gap.t < Word
    /\ StoredLast = gap.t


---------------------------------------------------------------------------
(* C32: flip is a single bit in the data phase                             *)

\* the value the last nextPulse call of device k handed to gotBit when it
\* appended a bit: the literal 0 of the v1 classifier in T2, otherwise flip
\* after manchester has toggled it by 1 for a long pulse, by 0 for a short
Handed(k) ==
    IF outcome[k].pre.state = "T2" THEN 0
    ELSE XorBit(outcome[k].pre.flip, IF IsLong(k, outcome[k].w) THEN 1 ELSE 0)

\* C32: in both classifiers flip is 0 or 1 whenever the state is OK or T0,
\* and every value handed to gotBit is 0 or 1; flip is above 1 only in
\* UNKNOWN, where it counts the preamble; the call that leaves UNKNOWN zeroes
\* it, and the v1 classifier sets it to 1 when the calibration gap announces
\* a first bit 1, so the first bit is appended from a flip of 0 or 1.
C32_SingleBit ==
    \A k \in Devices :
      /\ dec[k].state \in {"OK", "T0"} => dec[k].flip \in {0, 1}
      /\ dec[k].flip > 1 => dec[k].state = "UNKNOWN"
      /\ Appended(k) =>
           /\ outcome[k].pre.flip \in {0, 1}
           /\ Handed(k) \in {0, 1}
           /\ outcome[k].at.flip \in {0, 1}
           /\ outcome[k].pre.state # "T2" => outcome[k].at.flip = Handed(k)
      /\ (/\ outcome[k].called
          /\ outcome[k].pre.state = "UNKNOWN"
          /\ outcome[k].at.state # "UNKNOWN") =>
           /\ outcome[k].at.flip = 0
           /\ outcome[k].at.total_bits = 0
      /\ (/\ outcome[k].called
          /\ outcome[k].pre.state = "T2"
          /\ outcome[k].at.state = "T0") =>
           /\ outcome[k].at.flip = 1
           /\ outcome[k].at.total_bits = 0

\* the v1 classifier, in OK with flip 1 after at least one bit, got a long
\* pulse: flip went back to 0 and 0 was handed to gotBit
C32_Witness ==
    /\ Appended(1)
    /\ outcome[1].pre.state = "OK"
    /\ outcome[1].pre.flip = 1
    /\ outcome[1].pre.total_bits > 0
    /\ IsLong(1, outcome[1].w)
    /\ Handed(1) = 0
    /\ dec[1].state = "OK"
    /\ dec[1].flip = 0

\* the v2.1 classifier left UNKNOWN with 24 or more pulses counted in flip,
\* and flip is 0 in T0
C32_CounterZeroed ==
    /\ outcome[2].called
    /\ outcome[2].pre.state = "UNKNOWN"
    /\ outcome[2].pre.flip >= 24
    /\ dec[2].state = "T0"
    /\ dec[2].flip = 0

\* the v1 classifier appended its first bit, a 1, from the flip the
\* calibration gap had set
C32_FirstBitFromGap ==
    /\ Appended(1)
    /\ outcome[1].pre.state = "T0"
    /\ outcome[1].pre.total_bits = 0
    /\ outcome[1].pre.flip = 1
    /\ Handed(1) = 1
    /\ dec[1].state = "OK"

\* the preamble counter above 1 in UNKNOWN
C32_Counting ==
    \E k \in Devices : dec[k].state = "UNKNOWN" /\ dec[k].flip > 1

=============================================================================
